---- MODULE Spec2Model ----
(***************************************************************************)
(* Statement parsers of chongming-koh/AutomationInvest:                    *)
(*   02-Automate-UOB-Credit-Statements.py   (UOB)                          *)
(*   Automate-OCBC-Credit-Statements.py     (OCBC)                         *)
(*   03-Automate-AMEX-Credit-Statements.py  (AMEX)                         *)
(*   AutomateParsingForeignStocks.py        (FS)                           *)
(*   AutomateParsingCDP.py                  (CDP)                          *)
(*   AutomateParsingSRS.py                  (SRS)                          *)
(*                                                                         *)
(* A Python str is modelled as a sequence of one-character strings, so     *)
(* that strip, splitlines, find and the regular expressions of the scripts *)
(* are computed character by character.  The text that pdfplumber returns  *)
(* for a document is the join, with "\n", of the lines the document is     *)
(* made of; a document is a sequence of indices into the line table of its *)
(* parser.                                                                 *)
(***************************************************************************)
EXTENDS Integers, Sequences, FiniteSets, TLC

VARIABLES
    parser,         \* which script runs: "UOB", "OCBC", "AMEX", "FS", "CDP" or "SRS";
                    \* in the specifications of single functions, the function called
    listing,        \* the files base_dir.rglob("*.pdf") yields, in the order it yields them
    args,           \* the arguments of the call, in the specifications of single functions
    earlier,        \* history: the listing and the end of the run before this one, in a
                    \* sequence that is empty in a first run
    folder,         \* the renaming scripts: the names of the entries of FOLDER
    pdf_files,      \* the documents of the run in the order of sorted(listing)
    k,              \* 1-based position of the batch loop in pdf_files (CDP and SRS: of
                    \* the page loop in the pages of the document)
    pc,             \* "next_file", "next_page", "loop", "done" or "raised <exception>";
                    \* "call" and "returned" in the specifications of single functions
    section,        \* the bounded section of the current document, or None
    lines,          \* the clean line stream of the current document
    lineSrc,        \* history: lineSrc[j] is the raw section line lines[j] came from
    i,              \* 0-based loop index of the stitch loop
    rows,           \* rows of the current document
    rowSrc,         \* history: rowSrc[j] is the index in lines of the line that started rows[j]
                    \* (CDP and SRS: the page and the index in the lines of its section)
    current_post,   \* UOB: post date of the pending record, or None
    current_trans,  \* UOB: transaction date of the pending record, or None
    buffer_lines,   \* UOB: fragments of the pending record
    bufSrc,         \* history: indices in lines of the fragments of the pending record
    flushed,        \* history: the pending records handed to flush, in order
    used,           \* history: raw section lines used as record start or continuation
    all_rows,       \* rows of the whole batch
    output          \* the rows written to the workbook, or None while nothing is written

vars == <<parser, listing, args, earlier, folder, pdf_files, k, pc, section, lines, lineSrc, i, rows, rowSrc,
          current_post, current_trans, buffer_lines, bufSrc, flushed, used,
          all_rows, output>>

(***************************************************************************)
(* Bounds of the model.                                                    *)
(***************************************************************************)
MaxBody == 3        \* lines between the header and the end marker
MaxDocs == 2        \* documents of a batch
MaxBatchBody == 1   \* body lines of the documents of a batch of several

(***************************************************************************)
(* Python's None.  Texts hold one-character strings only, so this value is *)
(* no text.                                                                *)
(***************************************************************************)
None == <<"None">>

(***************************************************************************)
(* Characters and str methods.                                             *)
(***************************************************************************)
Digits == {"0","1","2","3","4","5","6","7","8","9"}

LowerLetters ==
    <<"a","b","c","d","e","f","g","h","i","j","k","l","m",
      "n","o","p","q","r","s","t","u","v","w","x","y","z">>

UpperLetters ==
    <<"A","B","C","D","E","F","G","H","I","J","K","L","M",
      "N","O","P","Q","R","S","T","U","V","W","X","Y","Z">>

LowerSet == {LowerLetters[n] : n \in 1..26}

UpperSet == {UpperLetters[n] : n \in 1..26}

UpperOf == [c \in LowerSet |-> UpperLetters[CHOOSE n \in 1..26 : LowerLetters[n] = c]]

LowerOf == [c \in UpperSet |-> LowerLetters[CHOOSE n \in 1..26 : UpperLetters[n] = c]]

\* str.isspace / regex \s, on the characters that occur in the documents
IsSpace(c) == c \in {" ", "\n", "\t"}

\* regex \d
IsDigit(c) == c \in Digits

\* regex [A-Z]
IsUpper(c) == c \in UpperSet

\* regex \w
IsWord(c) == c \in Digits \/ c \in UpperSet \/ c \in LowerSet \/ c = "_"

ToUpper(c) == IF c \in LowerSet THEN UpperOf[c] ELSE c

ToLower(c) == IF c \in UpperSet THEN LowerOf[c] ELSE c

\* str.upper
upper(s) == [n \in 1..Len(s) |-> ToUpper(s[n])]

\* str.lower
lower(s) == [n \in 1..Len(s) |-> ToLower(s[n])]

\* s[a:b] of Python with 1-based a and inclusive b
Slice(s, a, b) == IF a > b THEN <<>> ELSE SubSeq(s, a, b)

\* number of leading whitespace characters of s
RECURSIVE LeadSpaces(_, _)
LeadSpaces(s, n) ==
    IF n < Len(s) /\ IsSpace(s[n + 1]) THEN LeadSpaces(s, n + 1) ELSE n

\* index of the last character of s that is no whitespace, 0 when there is none
RECURSIVE LastNonSpace(_, _)
LastNonSpace(s, n) ==
    IF n >= 1 /\ IsSpace(s[n]) THEN LastNonSpace(s, n - 1) ELSE n

\* str.strip
strip(s) == Slice(s, LeadSpaces(s, 0) + 1, LastNonSpace(s, Len(s)))

\* w occurs in s at position p (1-based)
StartsAt(s, p, w) ==
    /\ p >= 1
    /\ p + Len(w) - 1 <= Len(s)
    /\ \A q \in 1..Len(w) : s[p + q - 1] = w[q]

\* w occurs in s at position p, letter case ignored (re.IGNORECASE)
StartsAtI(s, p, w) ==
    /\ p >= 1
    /\ p + Len(w) - 1 <= Len(s)
    /\ \A q \in 1..Len(w) : ToUpper(s[p + q - 1]) = ToUpper(w[q])

\* str.startswith
startswith(s, w) == StartsAt(s, 1, w)

\* str.endswith
endswith(s, w) == StartsAt(s, Len(s) - Len(w) + 1, w)

\* w in s
Contains(s, w) == \E p \in 1..(Len(s) - Len(w) + 1) : StartsAt(s, p, w)

\* s.find(w) as a 1-based position, 0 when w does not occur (Python's -1)
find(s, w) ==
    IF Contains(s, w)
    THEN CHOOSE p \in 1..(Len(s) - Len(w) + 1) :
            /\ StartsAt(s, p, w)
            /\ \A q \in 1..(p - 1) : ~StartsAt(s, q, w)
    ELSE 0

\* position of the first "\n" of s at or after p, 0 when there is none
RECURSIVE NextNL(_, _)
NextNL(s, p) ==
    IF p > Len(s) THEN 0
    ELSE IF s[p] = "\n" THEN p
    ELSE NextNL(s, p + 1)

\* str.splitlines: no empty last line after a final line break
RECURSIVE SplitFrom(_, _)
SplitFrom(s, p) ==
    IF p > Len(s) THEN <<>>
    ELSE LET n == NextNL(s, p)
         IN  IF n = 0 THEN <<Slice(s, p, Len(s))>>
             ELSE <<Slice(s, p, n - 1)>> \o SplitFrom(s, n + 1)

splitlines(s) == SplitFrom(s, 1)

\* [ln.strip() for ln in s.splitlines()]
StrippedLines(s) == LET raw == splitlines(s) IN [n \in 1..Len(raw) |-> strip(raw[n])]

\* "\n".join(parts) and " ".join(parts)
RECURSIVE join(_, _)
join(sep, parts) ==
    IF parts = <<>> THEN <<>>
    ELSE IF Len(parts) = 1 THEN parts[1]
    ELSE parts[1] \o sep \o join(sep, Tail(parts))

\* re.sub(r"\s+", "", s): the text without its whitespace
Compact(s) == SelectSeq(s, LAMBDA c : ~IsSpace(c))

\* re.sub(r"\s+", " ", s): every run of whitespace becomes one space
RECURSIVE CollapseFrom(_, _)
CollapseFrom(s, p) ==
    IF p > Len(s) THEN <<>>
    ELSE IF IsSpace(s[p])
         THEN IF p > 1 /\ IsSpace(s[p - 1]) THEN CollapseFrom(s, p + 1)
              ELSE <<" ">> \o CollapseFrom(s, p + 1)
         ELSE <<s[p]>> \o CollapseFrom(s, p + 1)

\* the text as it is, where re.sub(r"\s+", " ", s) collapses the runs
CollapseSpaces_NoSub(s) == s

CollapseSpaces(s) == CollapseFrom(s, 1)

\* s.replace(",", "")
RemoveCommas(s) == SelectSeq(s, LAMBDA c : c # ",")

\* end of the run of whitespace that starts at p: first position >= p that holds none
RECURSIVE SkipSpaces(_, _)
SkipSpaces(s, p) ==
    IF p <= Len(s) /\ IsSpace(s[p]) THEN SkipSpaces(s, p + 1) ELSE p

\* end of the run of digits that starts at p
RECURSIVE SkipDigits(_, _)
SkipDigits(s, p) ==
    IF p <= Len(s) /\ IsDigit(s[p]) THEN SkipDigits(s, p + 1) ELSE p

\* regex \b between positions p - 1 and p
WordBoundary(s, p) ==
    LET before == p > 1 /\ p - 1 <= Len(s) /\ IsWord(s[p - 1])
        after  == p >= 1 /\ p <= Len(s) /\ IsWord(s[p])
    IN  before # after

(***************************************************************************)
(* A pattern that is a list of words with \s* or \s+ between them, some    *)
(* words optional, matched with re.IGNORECASE.  words[n] is                *)
(* [w |-> text, opt |-> the word (with the gap after it) may be absent,    *)
(*  gap |-> least number of whitespace characters after the word].         *)
(* The result is the position after the last character of the match, 0     *)
(* when there is no match at p.                                            *)
(***************************************************************************)
RECURSIVE MatchWords(_, _, _, _)
MatchWords(s, p, words, n) ==
    IF StartsAtI(s, p, words[n].w)
    THEN LET e == p + Len(words[n].w)
             g == SkipSpaces(s, e)
         IN  IF n = Len(words) THEN e
             ELSE IF g - e < words[n].gap THEN 0
             ELSE MatchWords(s, g, words, n + 1)
    ELSE IF words[n].opt /\ n < Len(words) THEN MatchWords(s, p, words, n + 1)
    ELSE 0

\* re.search of such a pattern: [start, end) of the leftmost match, None when none
SearchWords(s, words) ==
    IF \E p \in 1..Len(s) : MatchWords(s, p, words, 1) # 0
    THEN LET p == CHOOSE q \in 1..Len(s) :
                    /\ MatchWords(s, q, words, 1) # 0
                    /\ \A r \in 1..(q - 1) : MatchWords(s, r, words, 1) = 0
         IN  <<p, MatchWords(s, p, words, 1)>>
    ELSE None

(***************************************************************************)
(* UOB: 02-Automate-UOB-Credit-Statements.py                               *)
(***************************************************************************)
UOB_start_marker ==
                <<"P","o","s","t"," ","T","r","a","n","s"," ","D","e","s",
                  "c","r","i","p","t","i","o","n"," ","o","f"," ","T","r",
                  "a","n","s","a","c","t","i","o","n"," ","T","r","a","n",
                  "s","a","c","t","i","o","n"," ","A","m","o","u","n","t">>

UOB_end_marker ==
                <<"S","U","B"," ","T","O","T","A","L">>

Word(w, opt, gap) == [w |-> w, opt |-> opt, gap |-> gap]

\* Post\s*(?:Date\s*)?Trans\s*(?:Date\s*)?Description\s*of\s*Transaction\s*Transaction\s*Amount
UOB_START_MARKER_RE ==
    << Word(<<"P","o","s","t">>, FALSE, 0),
       Word(<<"D","a","t","e">>, TRUE, 0),
       Word(<<"T","r","a","n","s">>, FALSE, 0),
       Word(<<"D","a","t","e">>, TRUE, 0),
       Word(<<"D","e","s","c","r","i","p","t","i","o","n">>, FALSE, 0),
       Word(<<"o","f">>, FALSE, 0),
       Word(<<"T","r","a","n","s","a","c","t","i","o","n">>, FALSE, 0),
       Word(<<"T","r","a","n","s","a","c","t","i","o","n">>, FALSE, 0),
       Word(<<"A","m","o","u","n","t">>, FALSE, 0) >>

\* SUB\s*TOTAL
UOB_END_MARKER_RE ==
    << Word(<<"S","U","B">>, FALSE, 0), Word(<<"T","O","T","A","L">>, FALSE, 0) >>

\* _compact
UOB_compact(s) == Compact(s)

\* a regex that does not match (Python's None in place of a match object)
NoMatch == [ok |-> FALSE]

DigitAt(s, p) == p >= 1 /\ p <= Len(s) /\ IsDigit(s[p])

UpperAt(s, p) == p >= 1 /\ p <= Len(s) /\ IsUpper(s[p])

\* ^(?P<post>\d{2}\s+[A-Z]{3})\s+(?P<trans>\d{2}\s+[A-Z]{3})\s+(?P<rest>.+)$ on a
\* stripped line: each \s+ takes its whole run of whitespace, since a digit, a
\* letter or the first character of the rest has to follow it
UOB_TX_START_RE(ln) ==
    LET a == SkipSpaces(ln, 3)
        b == SkipSpaces(ln, a + 3)
        c == SkipSpaces(ln, b + 2)
        d == SkipSpaces(ln, c + 3)
    IN  IF /\ DigitAt(ln, 1) /\ DigitAt(ln, 2)
           /\ a > 3
           /\ UpperAt(ln, a) /\ UpperAt(ln, a + 1) /\ UpperAt(ln, a + 2)
           /\ b > a + 3
           /\ DigitAt(ln, b) /\ DigitAt(ln, b + 1)
           /\ c > b + 2
           /\ UpperAt(ln, c) /\ UpperAt(ln, c + 1) /\ UpperAt(ln, c + 2)
           /\ d > c + 3
           /\ d <= Len(ln)
           /\ \A q \in d..Len(ln) : ln[q] # "\n"
        THEN [ok    |-> TRUE,
              post  |-> Slice(ln, 1, a + 2),
              trans |-> Slice(ln, b, c + 2),
              rest  |-> Slice(ln, d, Len(ln))]
        ELSE NoMatch

\* (?:,\d{3})* from position q: the position after the last group
RECURSIVE AfterGroups(_, _)
AfterGroups(s, q) ==
    IF /\ q <= Len(s) /\ s[q] = ","
       /\ DigitAt(s, q + 1) /\ DigitAt(s, q + 2) /\ DigitAt(s, q + 3)
    THEN AfterGroups(s, q + 4)
    ELSE q

\* (?P<num>\d{1,3}(?:,\d{3})*\.\d{2})\s*(?P<suffix>CR|DR)?$ with re.IGNORECASE, matched
\* at position p: the groups and where the match starts
UOB_AmtAt(s, p) ==
    LET d == SkipDigits(s, p)
        q == AfterGroups(s, d)
        e == q + 3
        g == SkipSpaces(s, e)
        cr == <<"C","R">>
        dr == <<"D","R">>
    IN  IF /\ d - p >= 1 /\ d - p <= 3
           /\ q <= Len(s) /\ s[q] = "."
           /\ DigitAt(s, q + 1) /\ DigitAt(s, q + 2)
           /\ \/ g = Len(s) + 1
              \/ /\ g + 2 = Len(s) + 1
                 /\ StartsAtI(s, g, cr) \/ StartsAtI(s, g, dr)
        THEN [ok     |-> TRUE,
              start  |-> p,
              num    |-> Slice(s, p, q + 2),
              suffix |-> IF g = Len(s) + 1 THEN None ELSE Slice(s, g, g + 1)]
        ELSE NoMatch

\* AMT_AT_END_RE.search(s): the leftmost match
UOB_AMT_AT_END_RE(s) ==
    IF \E p \in 1..Len(s) : UOB_AmtAt(s, p).ok
    THEN UOB_AmtAt(s, CHOOSE p \in 1..Len(s) :
                        /\ UOB_AmtAt(s, p).ok
                        /\ \A r \in 1..(p - 1) : ~UOB_AmtAt(s, r).ok)
    ELSE NoMatch

\* AMT_ONLY_RE.match(s)
UOB_AMT_ONLY_RE(s) == UOB_AmtAt(s, 1)

\* normalize_amount that keeps the suffix CR as it keeps DR
normalize_amount_CreditAsSuffix(num, suffix) ==
    LET n   == strip(RemoveCommas(IF num = None THEN <<>> ELSE num))
        suf == upper(strip(IF suffix = None THEN <<>> ELSE suffix))
    IN  IF suf = <<>> THEN n ELSE n \o suf

\* normalize_amount without the replace(",", "")
normalize_amount_KeepsSeparators(num, suffix) ==
    LET n   == strip(IF num = None THEN <<>> ELSE num)
        suf == upper(strip(IF suffix = None THEN <<>> ELSE suffix))
    IN  IF suf = <<"C","R">> THEN <<"(">> \o n \o <<")">>
        ELSE IF suf = <<>> THEN n
        ELSE n \o suf

\* lines 93-104
normalize_amount(num, suffix) ==
    LET n   == strip(RemoveCommas(IF num = None THEN <<>> ELSE num))
        suf == upper(strip(IF suffix = None THEN <<>> ELSE suffix))
    IN  IF suf = <<"C","R">> THEN <<"(">> \o n \o <<")">>
        ELSE IF suf = <<>> THEN n
        ELSE n \o suf

\* ^PAGE\s+\d+\s+OF\s+\d+ matched at the start of s
UOB_PageOf(s) ==
    LET a == SkipSpaces(s, 5)
        b == SkipDigits(s, a)
        c == SkipSpaces(s, b)
        d == SkipSpaces(s, c + 2)
    IN  /\ startswith(s, <<"P","A","G","E">>)
        /\ a > 5 /\ b > a /\ c > b
        /\ StartsAt(s, c, <<"O","F">>)
        /\ d > c + 2
        /\ DigitAt(s, d)

\* \b\d{4}-\d{4}-\d{4}-\d{4}\b somewhere in s
UOB_MaskedPan(s) ==
    \E p \in 1..(Len(s) - 18) :
        /\ \A q \in 0..18 :
              IF q \in {4, 9, 14} THEN s[p + q] = "-" ELSE IsDigit(s[p + q])
        /\ WordBoundary(s, p)
        /\ WordBoundary(s, p + 19)

\* re.fullmatch(r"DATE\s+DATE\s+SGD", s)
UOB_DateDateSgd(s) ==
    LET w == <<"D","A","T","E">>
        a == SkipSpaces(s, 5)
        b == SkipSpaces(s, a + 4)
    IN  /\ StartsAt(s, 1, w)
        /\ a > 5
        /\ StartsAt(s, a, w)
        /\ b > a + 4
        /\ StartsAt(s, b, <<"S","G","D">>)
        /\ b + 2 = Len(s)

UOB_is_redundant_line(line) ==
    LET Noise(s, s_upper, s_compact) ==
        \/ s = <<>>
        \/ SearchWords(s, UOB_START_MARKER_RE) # None
        \/ SearchWords(s, UOB_END_MARKER_RE) # None
        \/ s \in {UOB_start_marker, UOB_end_marker,
                <<"D","a","t","e"," ","D","a","t","e"," ","S","G","D">>}
        \/ startswith(s_upper,
                <<"P","R","E","V","I","O","U","S"," ","B","A","L","A","N",
                  "C","E">>)
        \/ /\ Contains(s_upper, <<"P","L","E","A","S","E">>)
           /\ Contains(s_upper, <<"B","O","U","N","D">>)
           /\ Contains(s_upper, <<"D","U","T","Y">>)
        \/ Contains(s_compact,
                <<"P","L","E","A","S","E","N","O","T","E","T","H","A","T",
                  "Y","O","U","A","R","E","B","O","U","N","D","B","Y","A",
                  "D","U","T","Y">>)
        \/ Contains(s_compact,
                <<"U","N","A","U","T","H","O","R","I","S","E","D","D","E",
                  "B","I","T","S">>)
        \/ Contains(s_compact,
                <<"C","O","N","C","L","U","S","I","V","E","L","Y","B","I",
                  "N","D","I","N","G">>)
        \/ Contains(s_compact,
                <<"C","L","A","I","M","A","G","A","I","N","S","T","T","H",
                  "E","B","A","N","K">>)
        \/ Contains(s_upper,
                <<"U","N","I","T","E","D"," ","O","V","E","R","S","E","A",
                  "S"," ","B","A","N","K"," ","L","I","M","I","T","E","D">>)
        \/ Contains(s_upper,
                <<"U","O","B"," ","P","L","A","Z","A">>)
        \/ Contains(s_upper,
                <<"W","W","W",".","U","O","B",".","C","O","M",".","S","G">>)
        \/ UOB_PageOf(s_upper)
        \/ startswith(s_upper,
                <<"U","O","B"," ","O","N","E"," ","C","A","R","D">>)
        \/ Contains(s_upper,
                <<"(","C","O","N","T","I","N","U","E","D",")">>)
        \/ UOB_MaskedPan(s)
        \/ UOB_DateDateSgd(s_upper)
        \/ s_compact =
                <<"D","A","T","E","D","A","T","E","S","G","D">>
    IN  Noise(strip(line), upper(strip(line)), upper(Compact(strip(line))))

\* extract_section_text that cuts from the top of the text when it finds no header
UOB_extract_section_text_FromTop(all_text) ==
    LET m_start     == SearchWords(all_text, UOB_START_MARKER_RE)
        after_start == IF m_start = None THEN all_text
                       ELSE Slice(all_text, m_start[1], Len(all_text))
        m_end       == SearchWords(after_start, UOB_END_MARKER_RE)
    IN  IF m_end = None THEN None
        ELSE Slice(after_start, 1, m_end[2] - 1)

\* extract_section_text that takes the rest of the text when it finds no end marker
UOB_extract_section_text_ToEnd(all_text) ==
    LET m_start == SearchWords(all_text, UOB_START_MARKER_RE)
    IN  IF m_start = None THEN None
        ELSE LET after_start == Slice(all_text, m_start[1], Len(all_text))
                 m_end       == SearchWords(after_start, UOB_END_MARKER_RE)
             IN  IF m_end = None THEN after_start
                 ELSE Slice(after_start, 1, m_end[2] - 1)

\* extract_section_text that cuts before the end marker: m_end.start() for m_end.end()
UOB_extract_section_text_BeforeEnd(all_text) ==
    LET m_start == SearchWords(all_text, UOB_START_MARKER_RE)
    IN  IF m_start = None THEN None
        ELSE LET after_start == Slice(all_text, m_start[1], Len(all_text))
                 m_end       == SearchWords(after_start, UOB_END_MARKER_RE)
             IN  IF m_end = None THEN None
                 ELSE Slice(after_start, 1, m_end[1] - 1)

\* the extract_section_text that is bound when extract_rows_from_pdf runs (the second
\* definition of the file): the text from the first header match to the end of the
\* first SUB TOTAL after it, None when either is missing
UOB_extract_section_text(all_text) ==
    LET m_start == SearchWords(all_text, UOB_START_MARKER_RE)
    IN  IF m_start = None THEN None
        ELSE LET after_start == Slice(all_text, m_start[1], Len(all_text))
                 m_end       == SearchWords(after_start, UOB_END_MARKER_RE)
             IN  IF m_end = None THEN None
                 ELSE Slice(after_start, 1, m_end[2] - 1)

\* raw_index_from_compact: the raw positions of the characters that are no whitespace
RawIndexFromCompact(s, p) ==
    SelectSeq([n \in 1..(Len(s) - p + 1) |-> p + n - 1], LAMBDA n : ~IsSpace(s[n]))

\* the first definition of extract_section_text, which the second one replaces when
\* the module is loaded: it is never called.  It falls back to a scan of the text
\* without whitespace when the regex finds no header.
UOB_extract_section_text_first(all_text) ==
    LET m_start       == SearchWords(all_text, UOB_START_MARKER_RE)
        compact_text  == UOB_compact(all_text)
        compact_start == UOB_compact(UOB_start_marker)
        idx1          == find(compact_text, compact_start)
        idx           == IF idx1 # 0 THEN idx1
                         ELSE find(lower(compact_text), lower(compact_start))
        start_raw_idx == RawIndexFromCompact(all_text, 1)[idx]
        after_start   == IF m_start # None
                         THEN Slice(all_text, m_start[1], Len(all_text))
                         ELSE Slice(all_text, start_raw_idx, Len(all_text))
        m_end         == SearchWords(after_start, UOB_END_MARKER_RE)
    IN  IF m_start = None /\ idx = 0 THEN None
        ELSE IF m_end = None THEN None
        ELSE Slice(after_start, 1, m_end[2] - 1)

\* clean_lines without its call of is_redundant_line
RECURSIVE UOB_CleanFrom_NoNoiseFilter(_, _)
UOB_CleanFrom_NoNoiseFilter(raw, n) ==
    IF n > Len(raw) THEN <<>>
    ELSE IF SearchWords(raw[n], UOB_START_MARKER_RE) # None
    THEN UOB_CleanFrom_NoNoiseFilter(raw, n + 1)
    ELSE IF SearchWords(raw[n], UOB_END_MARKER_RE) # None THEN <<>>
    ELSE <<n>> \o UOB_CleanFrom_NoNoiseFilter(raw, n + 1)

\* clean_lines, as the indices of the raw lines it keeps: it stops at the first line
\* that holds the end marker and is not redundant (there is none, is_redundant_line
\* tests the end marker first)
RECURSIVE UOB_CleanFrom(_, _)
UOB_CleanFrom(raw, n) ==
    IF n > Len(raw) THEN <<>>
    ELSE IF UOB_is_redundant_line(raw[n]) THEN UOB_CleanFrom(raw, n + 1)
    ELSE IF SearchWords(raw[n], UOB_START_MARKER_RE) # None THEN UOB_CleanFrom(raw, n + 1)
    ELSE IF SearchWords(raw[n], UOB_END_MARKER_RE) # None THEN <<>>
    ELSE <<n>> \o UOB_CleanFrom(raw, n + 1)

UOB_clean_src(sec) == UOB_CleanFrom(StrippedLines(sec), 1)

UOB_clean_lines(sec) ==
    LET raw == StrippedLines(sec)
        src == UOB_clean_src(sec)
    IN  [n \in 1..Len(src) |-> raw[src[n]]]

\* step 1 without the test of before_amt: an amount at the end of the first fragment
\* always counts
UOB_FirstLine_AnyAmount(first) ==
    LET Step1(m_amt_end) ==
            LET before_amt == IF m_amt_end.ok
                              THEN strip(Slice(first, 1, m_amt_end.start - 1))
                              ELSE <<>>
            IN  IF m_amt_end.ok
                THEN [amount     |-> normalize_amount(m_amt_end.num, m_amt_end.suffix),
                      desc_parts |-> IF before_amt # <<>> THEN <<before_amt>> ELSE <<>>]
                ELSE [amount |-> None, desc_parts |-> <<first>>]
    IN  Step1(UOB_AMT_AT_END_RE(first))

\* step 1 of parse_tx_from_buffer: the amount at the end of the first fragment counts
\* only when text precedes it
UOB_FirstLine(first) ==
    LET Step1(m_amt_end) ==
            LET before_amt == IF m_amt_end.ok
                              THEN strip(Slice(first, 1, m_amt_end.start - 1))
                              ELSE <<>>
            IN  IF m_amt_end.ok /\ before_amt # <<>>
                THEN [amount     |-> normalize_amount(m_amt_end.num, m_amt_end.suffix),
                      desc_parts |-> <<before_amt>>]
                ELSE [amount |-> None, desc_parts |-> <<first>>]
    IN  Step1(UOB_AMT_AT_END_RE(first))

\* step 2 without "if amount is None": every amount-only line replaces the amount
UOB_ContLine_LastAmountWins(acc, cont) ==
    LET Step2(s, m_only) ==
            IF s = <<>> \/ UOB_is_redundant_line(s) THEN acc
            ELSE IF m_only.ok
            THEN [acc EXCEPT !.amount = normalize_amount(m_only.num, m_only.suffix)]
            ELSE [acc EXCEPT !.desc_parts = Append(@, s)]
    IN  Step2(strip(cont), UOB_AMT_ONLY_RE(strip(cont)))

\* one continuation line of step 2 of parse_tx_from_buffer
UOB_ContLine(acc, cont) ==
    LET Step2(s, m_only) ==
            IF s = <<>> \/ UOB_is_redundant_line(s) THEN acc
            ELSE IF acc.amount = None /\ m_only.ok
            THEN [acc EXCEPT !.amount = normalize_amount(m_only.num, m_only.suffix)]
            ELSE [acc EXCEPT !.desc_parts = Append(@, s)]
    IN  Step2(strip(cont), UOB_AMT_ONLY_RE(strip(cont)))

\* step 2 of parse_tx_from_buffer: the loop over buffer_lines[1:]
RECURSIVE UOB_ContLoop(_, _, _)
UOB_ContLoop(acc, buf, n) ==
    IF n > Len(buf) THEN acc
    ELSE UOB_ContLoop(UOB_ContLine(acc, buf[n]), buf, n + 1)

\* parse_tx_from_buffer without "if amount is None: return None"
parse_tx_from_buffer_KeepsNoAmount(post_date, trans_date, buf) ==
    IF buf = <<>> THEN <<>>
    ELSE LET Record(acc) ==
                 <<[date   |-> strip(trans_date),
                    desc   |-> strip(CollapseSpaces(join(<<" ">>, acc.desc_parts))),
                    amount |-> IF acc.amount = None THEN <<>> ELSE acc.amount]>>
         IN  Record(UOB_ContLoop(UOB_FirstLine(strip(buf[1])), buf, 2))

\* the result is <<>> for None and <<row>> for a row
parse_tx_from_buffer(post_date, trans_date, buf) ==
    IF buf = <<>> THEN <<>>
    ELSE LET Record(acc) ==
                 IF acc.amount = None THEN <<>>
                 ELSE <<[date   |-> strip(trans_date),
                         desc   |-> strip(CollapseSpaces(join(<<" ">>, acc.desc_parts))),
                         amount |-> acc.amount]>>
         IN  Record(UOB_ContLoop(UOB_FirstLine(strip(buf[1])), buf, 2))

(***************************************************************************)
(* OCBC: Automate-OCBC-Credit-Statements.py                                *)
(***************************************************************************)
OCBC_start_marker ==
                <<"T","R","A","N","S","A","C","T","I","O","N"," ","D","A",
                  "T","E"," ","D","E","S","C","R","I","P","T","I","O","N",
                  " ","A","M","O","U","N","T"," ","(","S","G","D",")">>

OCBC_end_marker ==
                <<"S","U","B","T","O","T","A","L">>

OCBC_MONTH_ABBR ==
    << <<"J","a","n">>, <<"F","e","b">>, <<"M","a","r">>, <<"A","p","r">>,
       <<"M","a","y">>, <<"J","u","n">>, <<"J","u","l">>, <<"A","u","g">>,
       <<"S","e","p">>, <<"O","c","t">>, <<"N","o","v">>, <<"D","e","c">> >>

DigitVal(c) ==
    CASE c = "0" -> 0 [] c = "1" -> 1 [] c = "2" -> 2 [] c = "3" -> 3 [] c = "4" -> 4
      [] c = "5" -> 5 [] c = "6" -> 6 [] c = "7" -> 7 [] c = "8" -> 8 [] c = "9" -> 9

\* position of the first occurrence of character c in s at or after p, 0 when none
RECURSIVE NextChar(_, _, _)
NextChar(s, c, p) ==
    IF p > Len(s) THEN 0
    ELSE IF s[p] = c THEN p
    ELSE NextChar(s, c, p + 1)

\* str.split(c) for a one-character separator
RECURSIVE SplitChar(_, _, _)
SplitChar(s, c, p) ==
    LET n == NextChar(s, c, p)
    IN  IF n = 0 THEN <<Slice(s, p, Len(s))>>
        ELSE <<Slice(s, p, n - 1)>> \o SplitChar(s, c, n + 1)

\* str.zfill(2)
zfill2(s) ==
    IF Len(s) >= 2 THEN s
    ELSE IF Len(s) = 1 THEN <<"0">> \o s
    ELSE <<"0", "0">>

\* MONTH_ABBR.get(mm, ""): no default for a month that is no key
OCBC_MonthGet_Strict(mm) ==
    IF /\ Len(mm) = 2 /\ IsDigit(mm[1]) /\ IsDigit(mm[2])
       /\ 10 * DigitVal(mm[1]) + DigitVal(mm[2]) \in 1..12
    THEN OCBC_MONTH_ABBR[10 * DigitVal(mm[1]) + DigitVal(mm[2])]
    ELSE <<>>

\* MONTH_ABBR.get(mm, mm): the keys are "01" to "12"
OCBC_MonthGet(mm) ==
    IF /\ Len(mm) = 2 /\ IsDigit(mm[1]) /\ IsDigit(mm[2])
       /\ 10 * DigitVal(mm[1]) + DigitVal(mm[2]) \in 1..12
    THEN OCBC_MONTH_ABBR[10 * DigitVal(mm[1]) + DigitVal(mm[2])]
    ELSE mm

format_tx_date(date_str) ==
    LET s     == strip(date_str)
        parts == SplitChar(s, "/", 1)
    IN  IF Len(parts) < 2 THEN s
        ELSE zfill2(parts[1]) \o <<" ">> \o OCBC_MonthGet(zfill2(parts[2]))

OCBC_redundant_substrings ==
    <<
                <<"O","C","B","C"," ","3","6","5"," ","C","R","E","D","I",
                  "T"," ","C","A","R","D">>,
                <<"p","e","n","a","l","t","y"," ","i","n","t","e","r","e",
                  "s","t"," ","r","a","t","e">>,
                <<"b","a","c","k"," ","o","f"," ","s","t","a","t","e","m",
                  "e","n","t">>,
                <<"T","A","N"," ">>,
                <<"x","x","x","x","-","x","x","x","x","-","x","x","x","x",
                  "-","x","x","x","x">>,
                <<"L","A","S","T"," ","M","O","N","T","H","'","S"," ","B",
                  "A","L","A","N","C","E">>,
                <<"C","o",".","R","e","g",".","n","o",".",":">>,
                <<"P","A","G","E"," ">>,
                <<"O","C","B","C"," ","B","a","n","k"," ","-"," ","C","r",
                  "e","d","i","t"," ","C","a","r","d","s">>,
                <<"6","5"," ","C","h","u","l","i","a"," ","S","t","r","e",
                  "e","t">>,
                <<"O","C","B","C"," ","C","e","n","t","r","e">>,
                <<"S","i","n","g","a","p","o","r","e"," ","0","4","9","5",
                  "1","3">>,
                <<"C","O","N","T","A","C","T"," ","U","S">>,
                <<"1","8","0","0"," ","3","6","3"," ","3","3","3","3">>,
                <<"(","6","5",")"," ","6","3","6","3"," ","3","3","3","3">>,
                <<"w","h","e","n"," ","o","v","e","r","s","e","a","s">> >>

OCBC_is_redundant_line(line) ==
    LET s == strip(line)
    IN  \/ s = <<>>
        \/ s \in {OCBC_start_marker, OCBC_end_marker}
        \/ \E n \in 1..Len(OCBC_redundant_substrings) :
              Contains(s, OCBC_redundant_substrings[n])

\* (?P<amt>\(?-?[0-9,]+\.\d{2}\)?)\s*$ matched at position g: the position of the last
\* character of the amount, 0 when there is no match
RECURSIVE SkipNumChars(_, _)
SkipNumChars(s, p) ==
    IF p <= Len(s) /\ (IsDigit(s[p]) \/ s[p] = ",") THEN SkipNumChars(s, p + 1) ELSE p

OCBC_AmtEnd(s, g) ==
    LET a == IF g <= Len(s) /\ s[g] = "(" THEN g + 1 ELSE g
        b == IF a <= Len(s) /\ s[a] = "-" THEN a + 1 ELSE a
        c == SkipNumChars(s, b)
        e == IF c + 3 <= Len(s) /\ s[c + 3] = ")" THEN c + 3 ELSE c + 2
    IN  IF /\ c > b
           /\ c <= Len(s) /\ s[c] = "."
           /\ DigitAt(s, c + 1) /\ DigitAt(s, c + 2)
           /\ SkipSpaces(s, e + 1) = Len(s) + 1
        THEN e
        ELSE 0

\* ^(?P<date>\d{2}/\d{2})\s+(?P<desc>.+?)\s+(?P<amt>...)\s*$ : the first \s+ is greedy and
\* the description lazy, so the match has the latest start of the description that
\* allows one and, for it, the earliest end
OCBC_TxSplit(s, ds, de) ==
    /\ ds > 6
    /\ \A q \in 6..(ds - 1) : IsSpace(s[q])
    /\ de >= ds
    /\ \A q \in ds..de : s[q] # "\n"
    /\ de < Len(s)
    /\ IsSpace(s[de + 1])
    /\ OCBC_AmtEnd(s, SkipSpaces(s, de + 1)) # 0

OCBC_TX_RE(s) ==
    LET dateOk == /\ DigitAt(s, 1) /\ DigitAt(s, 2)
                  /\ Len(s) >= 3 /\ s[3] = "/"
                  /\ DigitAt(s, 4) /\ DigitAt(s, 5)
        starts == {ds \in 7..Len(s) : \E de \in ds..Len(s) : OCBC_TxSplit(s, ds, de)}
    IN  IF dateOk /\ starts # {}
        THEN LET ds == CHOOSE x \in starts : \A y \in starts : y <= x
                 de == CHOOSE x \in ds..Len(s) :
                          /\ OCBC_TxSplit(s, ds, x)
                          /\ \A y \in ds..(x - 1) : ~OCBC_TxSplit(s, ds, y)
                 g  == SkipSpaces(s, de + 1)
             IN  [ok   |-> TRUE,
                  date |-> Slice(s, 1, 5),
                  desc |-> Slice(s, ds, de),
                  amt  |-> Slice(s, g, OCBC_AmtEnd(s, g))]
        ELSE NoMatch

\* the result is <<>> for None and <<row>> for a row
OCBC_parse_transaction_line(line) ==
    LET Row(m) ==
            IF ~m.ok THEN <<>>
            ELSE <<[date   |-> format_tx_date(m.date),
                    desc   |-> strip(m.desc),
                    amount |-> m.amt]>>
    IN  Row(OCBC_TX_RE(strip(line)))

\* block_re.search(all_text), with re.DOTALL: the text from the first start marker to
\* the end of the first end marker after it, None when there is no such pair
OCBC_block(text) ==
    LET s == find(text, OCBC_start_marker)
        rest == Slice(text, s + Len(OCBC_start_marker), Len(text))
        e == find(rest, OCBC_end_marker)
    IN  IF s = 0 \/ e = 0 THEN None
        ELSE Slice(text, s, s + Len(OCBC_start_marker) + e + Len(OCBC_end_marker) - 2)

\* lines 135-146, as the indices of the raw lines kept: the loop stops at the first
\* line that is the end marker
RECURSIVE OCBC_CleanFrom(_, _)
OCBC_CleanFrom(raw, n) ==
    IF n > Len(raw) THEN <<>>
    ELSE LET s == strip(raw[n])
         IN  IF s = OCBC_start_marker THEN OCBC_CleanFrom(raw, n + 1)
             ELSE IF s = OCBC_end_marker THEN <<>>
             ELSE IF OCBC_is_redundant_line(s) THEN OCBC_CleanFrom(raw, n + 1)
             ELSE <<n>> \o OCBC_CleanFrom(raw, n + 1)

OCBC_clean_src(sec) == OCBC_CleanFrom(StrippedLines(sec), 1)

OCBC_clean_lines(sec) ==
    LET raw == StrippedLines(sec)
        src == OCBC_clean_src(sec)
    IN  [n \in 1..Len(src) |-> strip(raw[src[n]])]

\* the continuation test without "not TX_RE.match(nxt)"
OCBC_IsContinuation_NoTxTest(clean, n) ==
    /\ n + 1 <= Len(clean)
    /\ ~OCBC_is_redundant_line(clean[n + 1])

\* lines 160-162: the line after a transaction line continues its description
OCBC_IsContinuation(clean, n) ==
    /\ n + 1 <= Len(clean)
    /\ ~OCBC_TX_RE(clean[n + 1]).ok
    /\ ~OCBC_is_redundant_line(clean[n + 1])

(***************************************************************************)
(* AMEX: 03-Automate-AMEX-Credit-Statements.py                             *)
(***************************************************************************)
\* Details\s+Foreign\s+Spending\s+Amount\s*S\$ with re.IGNORECASE
AMEX_start_marker_re ==
    << Word(<<"D","e","t","a","i","l","s">>, FALSE, 1),
       Word(<<"F","o","r","e","i","g","n">>, FALSE, 1),
       Word(<<"S","p","e","n","d","i","n","g">>, FALSE, 1),
       Word(<<"A","m","o","u","n","t">>, FALSE, 0),
       Word(<<"S","$">>, FALSE, 0) >>

AMEX_end_marker ==
                <<"T","o","t","a","l"," ","o","f"," ","N","e","w"," ","T",
                  "r","a","n","s","a","c","t","i","o","n","s">>

\* ^\d{2}\.\d{2}\.\d{2} at the start of s
AMEX_DateAt(s) ==
    /\ DigitAt(s, 1) /\ DigitAt(s, 2)
    /\ Len(s) >= 3 /\ s[3] = "."
    /\ DigitAt(s, 4) /\ DigitAt(s, 5)
    /\ Len(s) >= 6 /\ s[6] = "."
    /\ DigitAt(s, 7) /\ DigitAt(s, 8)

\* DATE_DDMMYY_DOTS_RE.match(s): ^\d{2}\.\d{2}\.\d{2}\b
AMEX_DATE_DDMMYY_DOTS_RE(s) == AMEX_DateAt(s) /\ WordBoundary(s, 9)

\* (?P<amt>[0-9,]+\.\d{2})(?P<cr>CR)?\s*$ matched at position g
AMEX_AmtAt(s, g) ==
    LET c  == SkipNumChars(s, g)
        cr == StartsAt(s, c + 3, <<"C","R">>)
        e  == IF cr THEN c + 5 ELSE c + 3
    IN  IF /\ c > g
           /\ c <= Len(s) /\ s[c] = "."
           /\ DigitAt(s, c + 1) /\ DigitAt(s, c + 2)
           /\ SkipSpaces(s, e) = Len(s) + 1
        THEN [ok |-> TRUE, amt |-> Slice(s, g, c + 2), cr |-> cr]
        ELSE NoMatch

\* ^(?P<date>\d{2}\.\d{2}\.\d{2})\s+(?P<desc>.+?)\s+(?P<amt>[0-9,]+\.\d{2})(?P<cr>CR)?\s*$ :
\* the first \s+ is greedy and the description lazy
AMEX_TxSplit(s, ds, de) ==
    /\ ds > 9
    /\ \A q \in 9..(ds - 1) : IsSpace(s[q])
    /\ de >= ds
    /\ \A q \in ds..de : s[q] # "\n"
    /\ de < Len(s)
    /\ IsSpace(s[de + 1])
    /\ AMEX_AmtAt(s, SkipSpaces(s, de + 1)).ok

AMEX_TX_RE(s) ==
    LET starts == {ds \in 10..Len(s) : \E de \in ds..Len(s) : AMEX_TxSplit(s, ds, de)}
    IN  IF AMEX_DateAt(s) /\ starts # {}
        THEN LET ds == CHOOSE x \in starts : \A y \in starts : y <= x
                 de == CHOOSE x \in ds..Len(s) :
                          /\ AMEX_TxSplit(s, ds, x)
                          /\ \A y \in ds..(x - 1) : ~AMEX_TxSplit(s, ds, y)
                 m  == AMEX_AmtAt(s, SkipSpaces(s, de + 1))
             IN  [ok   |-> TRUE,
                  date |-> Slice(s, 1, 8),
                  desc |-> Slice(s, ds, de),
                  amt  |-> m.amt,
                  cr   |-> m.cr]
        ELSE NoMatch

AMEX_MONTHS ==
    << <<"J","A","N">>, <<"F","E","B">>, <<"M","A","R">>, <<"A","P","R">>,
       <<"M","A","Y">>, <<"J","U","N">>, <<"J","U","L">>, <<"A","U","G">>,
       <<"S","E","P">>, <<"O","C","T">>, <<"N","O","V">>, <<"D","E","C">> >>

DigitChar(n) == CASE n = 0 -> "0" [] n = 1 -> "1" [] n = 2 -> "2" [] n = 3 -> "3"
                  [] n = 4 -> "4" [] n = 5 -> "5" [] n = 6 -> "6" [] n = 7 -> "7"
                  [] n = 8 -> "8" [] n = 9 -> "9"

TwoDigits(s, p) == 10 * DigitVal(s[p]) + DigitVal(s[p + 1])

\* the year datetime.strptime gives for %y: 69-99 are 19xx, 00-68 are 20xx
YearOf(yy) == IF yy >= 69 THEN 1900 + yy ELSE 2000 + yy

DaysInMonth(y, m) ==
    IF m \in {4, 6, 9, 11} THEN 30
    ELSE IF m = 2
    THEN IF (y % 4 = 0 /\ y % 100 # 0) \/ y % 400 = 0 THEN 29 ELSE 28
    ELSE 31

\* datetime.strptime(date_str, "%d.%m.%y") raises ValueError
AMEX_strptime_raises(date_str) ==
    LET d == TwoDigits(date_str, 1)
        m == TwoDigits(date_str, 4)
        y == YearOf(TwoDigits(date_str, 7))
    IN  \/ m < 1 \/ m > 12
        \/ d < 1
        \/ d > DaysInMonth(y, m)

\* format_date_and_year on a token dd.mm.yy that strptime accepts: ("25 OCT", "2020")
format_date_and_year(date_str) ==
    LET m == TwoDigits(date_str, 4)
        y == YearOf(TwoDigits(date_str, 7))
    IN  [day_mon   |-> Slice(date_str, 1, 2) \o <<" ">> \o AMEX_MONTHS[m],
         year_yyyy |-> << DigitChar(y \div 1000), DigitChar((y \div 100) % 10),
                          DigitChar((y \div 10) % 10), DigitChar(y % 10) >>]

\* format_amount_for_excel without the replace(",", "")
format_amount_for_excel_KeepsSeparators(amount_str, is_credit) ==
    LET amt == strip(amount_str)
    IN  IF is_credit THEN <<"(">> \o amt \o <<")">> ELSE amt

\* lines 48-55
format_amount_for_excel(amount_str, is_credit) ==
    LET amt == strip(RemoveCommas(amount_str))
    IN  IF is_credit THEN <<"(">> \o amt \o <<")">> ELSE amt

AMEX_redundant_substrings ==
    <<
                <<"A","m","e","r","i","c","a","n"," ","E","x","p","r","e",
                  "s","s"," ","I","n","t","e","r","n","a","t","i","o","n",
                  "a","l">>,
                <<"U","E","N">>,
                <<"S","t","a","t","e","m","e","n","t"," ","o","f"," ","A",
                  "c","c","o","u","n","t">>,
                <<"P","r","e","p","a","r","e","d"," ","f","o","r"," ","M",
                  "e","m","b","e","r","s","h","i","p"," ","N","u","m","b",
                  "e","r">>,
                <<"M","e","m","b","e","r","s","h","i","p"," ","N","u","m",
                  "b","e","r">>,
                <<"P","A","Y","M","E","N","T"," ","A","D","V","I","C","E">>,
                <<"P","l","e","a","s","e"," ","r","e","t","u","r","n">>,
                <<"M","i","n","i","m","u","m"," ","P","a","y","m","e","n",
                  "t">>,
                <<"D","u","e"," ","b","y">>,
                <<"E","n","t","e","r"," ","a","m","o","u","n","t"," ","e",
                  "n","c","l","o","s","e","d">>,
                <<"P","l","e","a","s","e"," ","m","a","k","e"," ","c","r",
                  "o","s","s","e","d"," ","c","h","e","q","u","e"," ","p",
                  "a","y","a","b","l","e">>,
                <<"A","M","E","R","I","C","A","N"," ","E","X","P","R","E",
                  "S","S">>,
                <<"P","l","e","a","s","e"," ","d","o"," ","n","o","t"," ",
                  "w","r","i","t","e">>,
                <<"T","h","e"," ","R","e","w","a","r","d","s"," ","C","a",
                  "r","d">>,
                <<"P","a","g","e"," ">>,
                <<"I","m","p","o","r","t","a","n","t"," ","I","n","f","o",
                  "r","m","a","t","i","o","n">>,
                <<"F","o","r","e","i","g","n"," ","C","u","r","r","e","n",
                  "c","y"," ","C","h","a","r","g","e","s">>,
                <<"O","n","l","i","n","e"," ","S","e","r","v","i","c","e",
                  "s">>,
                <<"P","a","y","m","e","n","t"," ","M","e","t","h","o","d">>,
                <<"P","r","i","v","a","c","y",":">>,
                <<"L","i","m","i","t","e","d"," ","L","i","a","b","i","l",
                  "i","t","y">>,
                <<"C","r","e","d","i","t"," ","C","a","r","d"," ","I","n",
                  "t","e","r","e","s","t"," ","R","a","t","e"," ","P","o",
                  "l","i","c","y">>,
                <<"l","o","g"," ","o","n"," ","t","o"," ","a","m","e","r",
                  "i","c","a","n","e","x","p","r","e","s","s",".","c","o",
                  "m",".","s","g">>,
                <<"a","m","e","x",".","c","o","/">>,
                <<"r","e","p","l","y"," ","e","n","v","e","l","o","p","e">> >>

AMEX_is_redundant_line(line) ==
    LET s       == strip(line)
        s_lower == lower(s)
    IN  \/ s = <<>>
        \/ s = AMEX_end_marker
        \/ SearchWords(s, AMEX_start_marker_re) # None
        \/ \E n \in 1..Len(AMEX_redundant_substrings) :
              Contains(s_lower, lower(AMEX_redundant_substrings[n]))

\* the result is <<>> for None and <<row>> for a row; a date strptime rejects is kept
\* as it is, with an empty year
AMEX_parse_transaction_line(line) ==
    LET Row(m) ==
            IF ~m.ok THEN <<>>
            ELSE <<[date   |-> IF AMEX_strptime_raises(m.date) THEN m.date
                               ELSE format_date_and_year(m.date).day_mon,
                    year   |-> IF AMEX_strptime_raises(m.date) THEN <<>>
                               ELSE format_date_and_year(m.date).year_yyyy,
                    desc   |-> strip(m.desc),
                    amount |-> format_amount_for_excel(m.amt, m.cr)]>>
    IN  Row(AMEX_TX_RE(strip(line)))

\* the lookahead of seg_re at position t: a start marker or the end marker (the flag
\* re.IGNORECASE covers both)
AMEX_SegStop(text, t) ==
    \/ MatchWords(text, t, AMEX_start_marker_re, 1) # 0
    \/ StartsAtI(text, t, AMEX_end_marker)

\* seg_re.finditer(all_text) from position p: each match is a start marker and the
\* shortest text after it that a start marker or the end marker follows
RECURSIVE AMEX_SegmentsFrom(_, _)
AMEX_SegmentsFrom(text, p) ==
    LET from == Slice(text, p, Len(text))
        m    == SearchWords(from, AMEX_start_marker_re)
        b    == p + m[2] - 1
    IN  IF m = None THEN <<>>
        ELSE IF \E t \in b..Len(text) : AMEX_SegStop(text, t)
        THEN LET t == CHOOSE x \in b..Len(text) :
                         /\ AMEX_SegStop(text, x)
                         /\ \A y \in b..(x - 1) : ~AMEX_SegStop(text, y)
             IN  <<Slice(text, b, t - 1)>> \o AMEX_SegmentsFrom(text, t)
        ELSE <<>>

\* the first match of seg_re only
extract_marker_segments_FirstOnly(text) ==
    IF AMEX_SegmentsFrom(text, 1) = <<>> THEN <<>> ELSE <<AMEX_SegmentsFrom(text, 1)[1]>>

\* lines 125-136: the captured group of every match of seg_re
extract_marker_segments(text) == AMEX_SegmentsFrom(text, 1)

\* lines 150-152: the stripped lines of all segments
RECURSIVE AMEX_RawLines(_)
AMEX_RawLines(segments) ==
    IF segments = <<>> THEN <<>>
    ELSE StrippedLines(segments[1]) \o AMEX_RawLines(Tail(segments))

\* lines 154-161, as the indices of the raw lines kept
RECURSIVE AMEX_CleanFrom(_, _)
AMEX_CleanFrom(raw, n) ==
    IF n > Len(raw) THEN <<>>
    ELSE LET s == strip(raw[n])
         IN  IF s = <<>> \/ AMEX_is_redundant_line(s) THEN AMEX_CleanFrom(raw, n + 1)
             ELSE <<n>> \o AMEX_CleanFrom(raw, n + 1)

AMEX_clean_src(segments) == AMEX_CleanFrom(AMEX_RawLines(segments), 1)

AMEX_clean_lines(segments) ==
    LET raw == AMEX_RawLines(segments)
        src == AMEX_clean_src(segments)
    IN  [n \in 1..Len(src) |-> strip(raw[src[n]])]

\* prev.startswith("(") and prev.endswith(")")
Parenthesized(a) == startswith(a, <<"(">>) /\ endswith(a, <<")">>)

(***************************************************************************)
(* FS: AutomateParsingForeignStocks.py                                     *)
(***************************************************************************)
FS_start_marker ==
                <<"S"," ","t"," ","a"," ","t"," ","e"," ","m"," ","e"," ",
                  "n"," ","t"," ","O"," ","f"," ","A"," ","c"," ","c"," ",
                  "o"," ","u"," ","n"," ","t">>

FS_end_marker ==
                <<"C"," ","u"," ","s"," ","t"," ","o"," ","d"," ","y"," ",
                  "S"," ","t"," ","a"," ","t"," ","e"," ","m"," ","e"," ",
                  "n"," ","t">>

\* date_re.match(s): ^\d{2}/\d{2}/\d{4}\b
FS_date_re(s) ==
    /\ DigitAt(s, 1) /\ DigitAt(s, 2)
    /\ Len(s) >= 3 /\ s[3] = "/"
    /\ DigitAt(s, 4) /\ DigitAt(s, 5)
    /\ Len(s) >= 6 /\ s[6] = "/"
    /\ DigitAt(s, 7) /\ DigitAt(s, 8) /\ DigitAt(s, 9) /\ DigitAt(s, 10)
    /\ WordBoundary(s, 11)

\* end of the run of [A-Z0-9] that starts at p
RECURSIVE SkipRef(_, _)
SkipRef(s, p) ==
    IF p <= Len(s) /\ (IsDigit(s[p]) \/ IsUpper(s[p])) THEN SkipRef(s, p + 1) ELSE p

\* [0-9,]+\.\d{2} matched at g: the position after it, 0 when there is no match
FS_NumEnd(s, g) ==
    LET c == SkipNumChars(s, g)
    IN  IF /\ c > g
           /\ c <= Len(s) /\ s[c] = "."
           /\ DigitAt(s, c + 1) /\ DigitAt(s, c + 2)
        THEN c + 3
        ELSE 0

\* \s+([0-9,]+\.\d{2})\s+([0-9,]+\.\d{2})\s*$ matched at t
FS_TailAt(s, t) ==
    LET g1 == SkipSpaces(s, t)
        e1 == FS_NumEnd(s, g1)
        g2 == SkipSpaces(s, e1)
        e2 == FS_NumEnd(s, g2)
    IN  IF /\ g1 > t
           /\ e1 # 0
           /\ g2 > e1
           /\ e2 # 0
           /\ SkipSpaces(s, e2) = Len(s) + 1
        THEN [ok |-> TRUE, amount |-> Slice(s, g1, e1 - 1), balance |-> Slice(s, g2, e2 - 1)]
        ELSE NoMatch

\* the head of the pattern, ^(\d{2}/\d{2}/\d{4})\s+([A-Z0-9]+)\s+(CR|DR)\s+Note : the
\* position after "Note", 0 when there is no match
FS_HeadEnd(s) ==
    LET a == SkipSpaces(s, 11)
        b == SkipRef(s, a)
        c == SkipSpaces(s, b)
        d == SkipSpaces(s, c + 2)
    IN  IF /\ DigitAt(s, 1) /\ DigitAt(s, 2)
           /\ Len(s) >= 3 /\ s[3] = "/"
           /\ DigitAt(s, 4) /\ DigitAt(s, 5)
           /\ Len(s) >= 6 /\ s[6] = "/"
           /\ DigitAt(s, 7) /\ DigitAt(s, 8) /\ DigitAt(s, 9) /\ DigitAt(s, 10)
           /\ a > 11 /\ b > a /\ c > b
           /\ StartsAt(s, c, <<"C","R">>) \/ StartsAt(s, c, <<"D","R">>)
           /\ d > c + 2
           /\ StartsAt(s, d, <<"N","o","t","e">>)
        THEN d + 4
        ELSE 0

\* \s+(.+?) after "Note" and the tail: the \s+ is greedy and the text lazy
FS_TxSplit(s, h, ds, de) ==
    /\ ds > h
    /\ \A q \in h..(ds - 1) : IsSpace(s[q])
    /\ de >= ds
    /\ \A q \in ds..de : s[q] # "\n"
    /\ de < Len(s)
    /\ FS_TailAt(s, de + 1).ok

FS_TX_RE(s) ==
    LET h      == FS_HeadEnd(s)
        starts == {ds \in (h + 1)..Len(s) : \E de \in ds..Len(s) : FS_TxSplit(s, h, ds, de)}
    IN  IF h # 0 /\ starts # {}
        THEN LET ds == CHOOSE x \in starts : \A y \in starts : y <= x
                 de == CHOOSE x \in ds..Len(s) :
                          /\ FS_TxSplit(s, h, ds, x)
                          /\ \A y \in ds..(x - 1) : ~FS_TxSplit(s, h, ds, y)
                 a  == SkipSpaces(s, 11)
                 c  == SkipSpaces(s, SkipRef(s, a))
                 t  == FS_TailAt(s, de + 1)
             IN  [ok          |-> TRUE,
                  date_str    |-> Slice(s, 1, 10),
                  ref_no      |-> Slice(s, a, SkipRef(s, a) - 1),
                  crdr_flag   |-> Slice(s, c, c + 1),
                  note_suffix |-> Slice(s, ds, de),
                  amount_str  |-> t.amount,
                  balance_str |-> t.balance]
        ELSE NoMatch

\* the result is <<>> for None and <<row>> for a row
FS_parse_transaction_line(line) ==
    LET Row(m) ==
            IF /\ ~Contains(line,
                <<"C","R"," ","N","o","t","e"," ","W",".","E",".","F">>)
               /\ ~Contains(line,
                <<"D","R"," ","N","o","t","e"," ","H","A","N","D","L","I",
                  "N","G">>)
            THEN <<>>
            ELSE IF ~m.ok THEN <<>>
            ELSE <<[date    |-> m.date_str,
                    desc    |-> m.crdr_flag \o <<" ","N","o","t","e"," ">> \o m.note_suffix,
                    amount  |-> m.amount_str,
                    ref     |-> m.ref_no,
                    balance |-> m.balance_str,
                    crdr    |-> m.crdr_flag]>>
    IN  Row(FS_TX_RE(line))

\* a test of the end marker where line 119 tests the start marker
FS_start_missing_TestsEndMarker(text) == ~Contains(text, FS_end_marker)

\* line 119: start_marker not in all_text
FS_start_missing(text) == ~Contains(text, FS_start_marker)

\* lines 119-128: the text after the first start marker, up to the first end marker
\* in it when there is one, else to the end of the document
FS_section(text) ==
    LET s     == find(text, FS_start_marker)
        after == Slice(text, s + Len(FS_start_marker), Len(text))
        e     == find(after, FS_end_marker)
    IN  IF e # 0 THEN Slice(after, 1, e - 1) ELSE after

\* the continuation rule without the test of the length
FS_IsContinuation_AnyLength(lns, n) ==
    /\ n + 1 <= Len(lns)
    /\ strip(lns[n + 1]) # <<>>
    /\ ~FS_date_re(strip(lns[n + 1]))

\* lines 153-157: the next line continues the description
FS_IsContinuation(lns, n) ==
    /\ n + 1 <= Len(lns)
    /\ strip(lns[n + 1]) # <<>>
    /\ ~FS_date_re(strip(lns[n + 1]))
    /\ Len(strip(lns[n + 1])) <= 40

\* s.replace(w, "")
RECURSIVE Remove(_, _)
Remove(s, w) ==
    LET p == find(s, w)
    IN  IF p = 0 THEN s
        ELSE Slice(s, 1, p - 1) \o Remove(Slice(s, p + Len(w), Len(s)), w)

FS_CODE_TO_NAME_keys ==
    <<
                <<"1","E","G","0">>,
                <<"S","B","I","E","T","F">>,
                <<"S","T","E","T","F">>,
                <<"1","D","H","9">>,
                <<"4","H","4","M">>,
                <<"9","2","F","C">>,
                <<"A","S","C","E","N","D">>,
                <<"C","M","T">>,
                <<"C","R","C","T">>,
                <<"F","-","L","I","T","R">>,
                <<"H","A","W","P">>,
                <<"K","D","C","R","E","T">>,
                <<"M","C","T">>,
                <<"M","I","T","R">>,
                <<"O","C","B","C","B","K">>,
                <<"P","K","R","E","I","T">>,
                <<"R","M","E","D","I","C">>,
                <<"S","G","X">>,
                <<"S","T","E","L">> >>

FS_CODE_TO_NAME_values ==
    <<
                <<"N","i","k","k","o"," ","A","M"," ","S","G","D"," ","C",
                  "o","r","p"," ","B","o","n","d"," ","E","T","F">>,
                <<"A","B","F"," ","S","I","N","G","A","P","O","R","E"," ",
                  "B","o","n","d"," ","I","n","d","e","x">>,
                <<"S","T","I"," ","E","T","F">>,
                <<"N","e","t","L","i","n","k"," ","N","B","N"," ","T","r",
                  "u","s","t">>,
                <<"A","S","C","O","T","T"," ","R","E","S","I","D","E","N",
                  "C","E"," ","T","R","U","S","T">>,
                <<"V","i","c","o","m">>,
                <<"C","a","p","i","t","a","l","a","n","d"," ","I","n","d",
                  "i","a"," ","T","r","u","s","t">>,
                <<"C","a","p","i","t","a","l","a","n","d"," ","I","n","t",
                  "e","g","r","a","t","e","d"," ","C","o","m","m","e","r",
                  "c","i","a","l"," ","T","r","u","s","t">>,
                <<"C","a","p","i","t","a","L","a","n","d"," ","R","e","t",
                  "a","i","l"," ","C","h","i","n","a"," ","T","r","u","s",
                  "t">>,
                <<"F","r","a","s","e","r","s"," ","L","o","g","i","s","t",
                  "i","c","s"," ","C","o","m","m","e","r","i","c","a","l">>,
                <<"H","a","w"," ","P","a","r">>,
                <<"K","e","p","p","e","l"," ","D","C">>,
                <<"M","a","p","l","e","t","r","e","e"," ","P","a","n"," ",
                  "A","s","i","a">>,
                <<"M","a","p","l","e","t","r","e","e"," ","I","n","d","u",
                  "s","t","r","i","a","l"," ","T","r","u","s","t">>,
                <<"O","C","B","C">>,
                <<"P","a","r","k","w","a","y"," ","L","i","f","e"," ","R",
                  "E","I","T","S">>,
                <<"R","a","f","f","l","e","s"," ","M","e","d","i","c","a",
                  "l">>,
                <<"S","G","X">>,
                <<"S","i","n","g","t","e","l">> >>

\* CODE_TO_NAME.get(desc, desc)
FS_CodeGet(desc) ==
    IF \E n \in 1..Len(FS_CODE_TO_NAME_keys) : FS_CODE_TO_NAME_keys[n] = desc
    THEN FS_CODE_TO_NAME_values[CHOOSE n \in 1..Len(FS_CODE_TO_NAME_keys) :
                                    FS_CODE_TO_NAME_keys[n] = desc]
    ELSE desc

\* lines 175-189 and 195: the row as it is written to Sheet1
FS_CleanRow(r) ==
    [desc     |-> FS_CodeGet(strip(Remove(r.desc,
                <<"C","R"," ","D","I","V","I","D","E","N","D","S"," ","F",
                  "O","R">>))),
     ticker   |-> <<>>,
     year     |-> <<"2","0","2","4">>,
     date     |-> r.date,
     currency |-> <<"S","G","D">>,
     amount   |-> r.amount,
     net      |-> r.amount]

(***************************************************************************)
(* CDP: AutomateParsingCDP.py                                              *)
(***************************************************************************)
CDP_start_marker ==
                <<"C","a","s","h"," ","T","r","a","n","s","a","c","t","i",
                  "o","n">>

CDP_end_marker ==
                <<"Y","o","u","r"," ","S","e","c","u","r","i","t","i","e",
                  "s"," ","A","c","c","o","u","n","t"," ","i","s"," ","L",
                  "i","n","k","e","d"," ","T","o">>

\* (?:Dividend|Distribution) with re.IGNORECASE matched at p: the position after it,
\* 0 when there is no match
CDP_KeywordEnd(s, p) ==
    IF StartsAtI(s, p, <<"D","i","v","i","d","e","n","d">>) THEN p + 8
    ELSE IF StartsAtI(s, p, <<"D","i","s","t","r","i","b","u","t","i","o","n">>) THEN p + 12
    ELSE 0

\* \s+(-?[0-9,]+\.\d{2})\s*$ matched at t
CDP_TailAt(s, t) ==
    LET g == SkipSpaces(s, t)
        n == IF g <= Len(s) /\ s[g] = "-" THEN g + 1 ELSE g
        e == FS_NumEnd(s, n)
    IN  IF g > t /\ e # 0 /\ SkipSpaces(s, e) = Len(s) + 1
        THEN [ok |-> TRUE, amount |-> Slice(s, g, e - 1)]
        ELSE NoMatch

\* the keyword of the description group (.+(?:Dividend|Distribution).+?) that starts
\* at ds can be at kw: a character before it, and after it a character and the amount
CDP_KeywordAt(s, ds, kw) ==
    /\ kw > ds
    /\ CDP_KeywordEnd(s, kw) # 0
    /\ \E de \in CDP_KeywordEnd(s, kw)..(Len(s) - 1) : CDP_TailAt(s, de + 1).ok

\* lines 44-48: the first \s+ and the .+ before the keyword are greedy, the .+? after
\* it is lazy
CDP_TX_RE(s) ==
    LET starts == {ds \in 12..SkipSpaces(s, 11) :
                      \E kw \in (ds + 1)..Len(s) : CDP_KeywordAt(s, ds, kw)}
        Groups(ds) ==
            LET kws == {kw \in (ds + 1)..Len(s) : CDP_KeywordAt(s, ds, kw)}
                Ends(kw) ==
                    LET de == CHOOSE x \in CDP_KeywordEnd(s, kw)..(Len(s) - 1) :
                                 /\ CDP_TailAt(s, x + 1).ok
                                 /\ \A y \in CDP_KeywordEnd(s, kw)..(x - 1) :
                                        ~CDP_TailAt(s, y + 1).ok
                    IN  [ok          |-> TRUE,
                         date_raw    |-> Slice(s, 1, 10),
                         description |-> Slice(s, ds, de),
                         amount_str  |-> CDP_TailAt(s, de + 1).amount]
            IN  Ends(CHOOSE x \in kws : \A y \in kws : y <= x)
    IN  IF /\ DigitAt(s, 1) /\ DigitAt(s, 2)
           /\ Len(s) >= 3 /\ s[3] = "/"
           /\ DigitAt(s, 4) /\ DigitAt(s, 5)
           /\ Len(s) >= 6 /\ s[6] = "/"
           /\ DigitAt(s, 7) /\ DigitAt(s, 8) /\ DigitAt(s, 9) /\ DigitAt(s, 10)
           /\ starts # {}
        THEN Groups(CHOOSE x \in starts : \A y \in starts : y <= x)
        ELSE NoMatch

\* lines 68-73: month_map.get(month_num, month_num), the keys are "01" to "12"
CDP_month_map_get(month_num) == OCBC_MonthGet(month_num)

\* lines 28-81; the result is <<>> for None and <<row>> for a row
CDP_parse_transaction_line(line) ==
    LET Row(m) ==
            IF ~m.ok THEN <<>>
            ELSE <<[date   |-> Slice(m.date_raw, 1, 2) \o <<"-">>
                                 \o CDP_month_map_get(Slice(m.date_raw, 4, 5)) \o <<"-">>
                                 \o Slice(m.date_raw, 9, 10),
                    desc   |-> m.description,
                    amount |-> m.amount_str]>>
    IN  Row(CDP_TX_RE(line))

CDP_CODE_TO_NAME_keys ==
    <<
                <<"C","A","P","I","T","A"," ","C","H","I","N","A"," ","T",
                  "R">>,
                <<"C","A","P","L","A","N","D"," ","A","S","C","O","T","T",
                  " ","T">>,
                <<"C","A","P","L","A","N","D"," ","I","N","D","I","A"," ",
                  "T">>,
                <<"C","A","P","L","A","N","D"," ","I","N","T","C","O","M",
                  " ","T">>,
                <<"C","L"," ","A","S","C","E","N","D","A","S"," ","R","E",
                  "I","T">>,
                <<"D","B","S">>,
                <<"F","I","R","S","T"," ","R","E","I","T">>,
                <<"F"," ","&"," ","N">>,
                <<"F","R","A","S","E","R","S"," ","C","P","T"," ","T","R">>,
                <<"H","A","W"," ","P","A","R">>,
                <<"K","E","P","P","E","L"," ","D","C"," ","R","E","I","T">>,
                <<"M","A","P","L","E","T","R","E","E"," ","I","N","D"," ",
                  "T","R">>,
                <<"M","P","L","T","R"," ","P","A","N"," ","T","R">>,
                <<"N","E","T","L","I","N","K"," ","N","B","N"," ","T","R">>,
                <<"O","C","B","C"," ","B","A","N","K">>,
                <<"P","A","R","K","W","A","Y","L","I","F","E"," ","R","E",
                  "I","T">>,
                <<"R","A","F","F","L","E","S"," ","M","E","D","I","C","A",
                  "L">>,
                <<"S","G","X">>,
                <<"S","T","I"," ","E","T","F">>,
                <<"T","H","A","I","B","E","V">>,
                <<"V","I","C","O","M"," ","L","T","D">>,
                <<"H","O","N","G","K","O","N","G"," ","L","A","N","D">>,
                <<"M","A","N","U","L","I","F","E","R","E","I","T"," ","U",
                  "S","D">> >>

CDP_CODE_TO_NAME_values ==
    <<
                <<"C","a","p","i","t","a","L","a","n","d"," ","R","e","t",
                  "a","i","l"," ","C","h","i","n","a"," ","T","r","u","s",
                  "t">>,
                <<"A","S","C","O","T","T"," ","R","E","S","I","D","E","N",
                  "C","E"," ","T","R","U","S","T">>,
                <<"C","a","p","i","t","a","l","a","n","d"," ","I","n","d",
                  "i","a"," ","T","r","u","s","t">>,
                <<"C","a","p","i","t","a","l","a","n","d"," ","I","n","t",
                  "e","g","r","a","t","e","d"," ","C","o","m","m","e","r",
                  "c","i","a","l"," ","T","r","u","s","t">>,
                <<"C","a","p","i","t","a","l","a","n","d"," ","A","s","c",
                  "e","n","d","a","s">>,
                <<"D","B","S">>,
                <<"F","i","r","s","t"," ","R","e","i","t","s">>,
                <<"F","&","N">>,
                <<"F","r","a","s","e","r","s"," ","C","e","n","t","r","e",
                  "p","o","i","n","t">>,
                <<"H","a","w"," ","P","a","r">>,
                <<"K","e","p","p","e","l"," ","D","C">>,
                <<"M","a","p","l","e","t","r","e","e"," ","I","n","d","u",
                  "s","t","r","i","a","l"," ","T","r","u","s","t">>,
                <<"M","a","p","l","e","t","r","e","e"," ","P","a","n"," ",
                  "A","s","i","a">>,
                <<"N","e","t","L","i","n","k"," ","N","B","N"," ","T","r",
                  "u","s","t">>,
                <<"O","C","B","C">>,
                <<"P","a","r","k","w","a","y"," ","L","i","f","e"," ","R",
                  "E","I","T","S">>,
                <<"R","a","f","f","l","e","s"," ","M","e","d","i","c","a",
                  "l">>,
                <<"S","G","X">>,
                <<"S","T","I"," ","E","T","F">>,
                <<"T","h","a","i"," ","B","e","v","e","r","a","g","e">>,
                <<"V","i","c","o","m">>,
                <<"H","o","n","g"," ","K","o","n","g"," ","L","a","n","d">>,
                <<"M","a","n","u","l","i","f","e"," ","U","S"," ","R","e",
                  "i","t","s">> >>

\* lines 111-132: the name of the first code the description starts with, else the
\* description
clean_description(raw_desc) ==
    LET Named(desc) ==
            LET hits == {n \in 1..Len(CDP_CODE_TO_NAME_keys) :
                            startswith(upper(desc), upper(CDP_CODE_TO_NAME_keys[n]))}
            IN  IF hits = {} THEN desc
                ELSE CDP_CODE_TO_NAME_values[CHOOSE n \in hits : \A h \in hits : n <= h]
    IN  Named(strip(Remove(raw_desc,
                <<"C","R"," ","D","I","V","I","D","E","N","D","S"," ","F",
                  "O","R">>)))

\* lines 167-178 and 184: the row as it is written to Sheet1
CDP_CleanRow(r) ==
    [desc     |-> clean_description(r.desc),
     ticker   |-> <<>>,
     year     |-> <<"2","0","2","5">>,
     date     |-> r.date,
     currency |-> <<"S","G","D">>,
     amount   |-> r.amount,
     net      |-> r.amount]

(***************************************************************************)
(* SRS: AutomateParsingSRS.py                                              *)
(***************************************************************************)
SRS_start_marker ==
                <<"T","T","R","R","A","A","N","N","S","S","A","A","C","C",
                  "T","T","I","I","O","O","N","N"," ","D","D","E","E","T",
                  "T","A","A","I","I","L","L","S","S">>

SRS_end_marker ==
                <<"S","E","C","U","R","I","T","Y"," ","I","N","V","E","S",
                  "T","M","E","N","T"," ","A","C","T","I","V","I","T","Y">>

SRS_prefix ==
                <<"C","R"," ","D","I","V","I","D","E","N","D","S"," ","F",
                  "O","R">>

\* the description group (CR DIVIDENDS FOR\s+.+?) is s[ds..de]
SRS_TxSplit(s, ds, de) ==
    /\ StartsAt(s, ds, SRS_prefix)
    /\ ds + 16 <= Len(s) /\ IsSpace(s[ds + 16])
    /\ de >= ds + 17
    /\ de < Len(s)
    /\ FS_TailAt(s, de + 1).ok

\* lines 40-43: ^(\d{2}[A-Z]{3})\s+(CR DIVIDENDS FOR\s+.+?)\s+([0-9,]+\.\d{2})\s+
\* ([0-9,]+\.\d{2})\s*$
SRS_TX_RE(s) ==
    LET Groups(ds) ==
            IF \E de \in ds..Len(s) : SRS_TxSplit(s, ds, de)
            THEN LET de == CHOOSE x \in ds..Len(s) :
                              /\ SRS_TxSplit(s, ds, x)
                              /\ \A y \in ds..(x - 1) : ~SRS_TxSplit(s, ds, y)
                 IN  [ok          |-> TRUE,
                      date_raw    |-> Slice(s, 1, 5),
                      description |-> Slice(s, ds, de),
                      amount_str  |-> FS_TailAt(s, de + 1).amount]
            ELSE NoMatch
    IN  IF /\ DigitAt(s, 1) /\ DigitAt(s, 2)
           /\ UpperAt(s, 3) /\ UpperAt(s, 4) /\ UpperAt(s, 5)
           /\ SkipSpaces(s, 6) > 6
        THEN Groups(SkipSpaces(s, 6))
        ELSE NoMatch

\* a month_map that maps no key
SRS_month_map_get_NoKeys(mon) == mon

\* lines 54-60: month_map.get(date_raw[2:5], date_raw[2:5]), the keys are "JAN" to "DEC"
SRS_month_map_get(mon) ==
    IF \E n \in 1..12 : AMEX_MONTHS[n] = mon
    THEN OCBC_MONTH_ABBR[CHOOSE n \in 1..12 : AMEX_MONTHS[n] = mon]
    ELSE mon

\* lines 24-69; the result is <<>> for None and <<row>> for a row
SRS_parse_transaction_line(line) ==
    LET Row(m) ==
            IF ~m.ok THEN <<>>
            ELSE <<[date   |-> Slice(m.date_raw, 1, 2) \o <<"-">>
                                 \o SRS_month_map_get(Slice(m.date_raw, 3, 5))
                                 \o <<"-","2","4">>,
                    desc   |-> m.description,
                    amount |-> m.amount_str]>>
    IN  Row(SRS_TX_RE(line))

\* lines 127-141 and 147: the row as it is written to Sheet1; CODE_TO_NAME holds the
\* codes and names of the foreign-stocks script
SRS_CleanRow(r) ==
    [desc     |-> FS_CodeGet(strip(Remove(r.desc, SRS_prefix))),
     ticker   |-> <<>>,
     year     |-> <<"2","0","2","4">>,
     date     |-> r.date,
     currency |-> <<"S","G","D">>,
     amount   |-> r.amount,
     net      |-> r.amount]

\* text.split(start, 1)[1], and of that .split(end, 1)[0] when it holds the end marker
SectionOfPage(text, start, end) ==
    LET After(a) == IF Contains(a, end) THEN Slice(a, 1, find(a, end) - 1) ELSE a
    IN  After(Slice(text, find(text, start) + Len(start), Len(text)))

CDP_LineTable ==
    << CDP_start_marker,
       CDP_end_marker,
                <<"1","4","/","1","1","/","2","0","2","5"," ","S","G","X",
                  " ","I","n","t","e","r","i","m"," ","C","a","s","h"," ",
                  "D","i","v","i","d","e","n","d"," ","-"," ","6","0","0",
                  " ","u","n","i","t","s"," ","@"," ","S","G","D"," ","0",
                  ".","1","0","7","5"," ","6","4",".","5","0">>,
                <<"2","8","/","1","1","/","2","0","2","5"," ","N","E","T",
                  "L","I","N","K"," ","N","B","N"," ","T","R"," ","F","i",
                  "n","a","l"," ","D","i","s","t","r","i","b","u","t","i",
                  "o","n"," ","-"," ","1",",","0","0","0"," ","u","n","i",
                  "t","s"," ","1",",","0","2","7",".","1","0">>,
                <<"D","a","t","e"," ","D","e","s","c","r","i","p","t","i",
                  "o","n"," ","A","m","o","u","n","t"," ","P","a","i","d">>,
                <<"3","0","/","1","3","/","2","0","2","5"," ","A","B","C",
                  " "," ","d","i","v","i","d","e","n","d"," ","2"," ","-",
                  "5",".","0","0">> >>

SRS_LineTable ==
    << SRS_start_marker,
       SRS_end_marker,
                <<"1","3","M","A","Y"," ","C","R"," ","D","I","V","I","D",
                  "E","N","D","S"," ","F","O","R"," ","9","2","F","C"," ",
                  "1","3",".","7","5"," ","1","9",",","0","6","7",".","0",
                  "6">>,
                <<"2","1","M","A","Y"," ","C","R"," ","D","I","V","I","D",
                  "E","N","D","S"," ","F","O","R"," ","H","A","W","P"," ",
                  "1",",","1","0","0",".","0","0"," ","1","7",",","0","2",
                  "4",".","1","1">>,
                <<"B","A","L","A","N","C","E"," ","B","/","F"," ","1","9",
                  ",","0","5","3",".","3","1">>,
                <<"1","3","X","Y","Z"," ","C","R"," ","D","I","V","I","D",
                  "E","N","D","S"," ","F","O","R"," "," ","S"," ","G"," ",
                  "X"," ","3","4",".","0","0"," ","1","9",",","1","0","1",
                  ".","0","6">> >>

(***************************************************************************)
(* The documents of the model.  LineTable(p) holds the lines the documents *)
(* of parser p are made of; a document is a sequence of indices into it:   *)
(* an optional header, at most MaxBody body lines and an optional end      *)
(* marker, for UOB and OCBC also with an end marker before the header.     *)
(* A few longer documents are added by hand for the cases of the claims    *)
(* that need more lines or a line that is no body line.                    *)
(***************************************************************************)
\* all sequences over S of length at most n
RECURSIVE SeqUpTo(_, _)
SeqUpTo(S, n) ==
    IF n = 0 THEN {<<>>}
    ELSE LET shorter == SeqUpTo(S, n - 1)
         IN  shorter \cup {Append(t, x) : t \in {u \in shorter : Len(u) = n - 1}, x \in S}

\* a file that is no PDF: pdfplumber.open raises on it
Unreadable == <<0>>

UOB_LineTable ==
    << UOB_start_marker,
                <<"P","o"," ","s","t"," ","T","r","a","n","s"," ","D","e",
                  "s","c","r","i","p","t","i","o","n"," ","o","f"," ","T",
                  "r","a","n","s","a","c","t","i","o","n"," ","T","r","a",
                  "n","s","a","c","t","i","o","n"," ","A","m","o","u","n",
                  "t">>,
       UOB_end_marker,
                <<"0","7"," ","J","U","N"," ","0","7"," ","J","U","N"," ",
                  "C","R"," ","I","N","T","E","R","E","S","T">>,
                <<"1","6",".","8","4"," ","C","R">>,
                <<"0","8"," ","J","U","N"," ","0","8"," ","J","U","N"," ",
                  "N","T","U","C"," "," ","F","A","I","R","P","R","I","C",
                  "E"," ","1",",","2","3","4",".","5","6">>,
                <<"7",".","0","0">>,
                <<"R","e","f"," ","N","o"," ","4","2">>,
                <<"P","A","G","E"," ","1"," ","O","F"," ","2">>,
                <<"0","9"," ","J","U","N"," ","0","9"," ","J","U","N"," ",
                  "7",".","0","0">>,
                <<"1","0"," ","J","U","N"," ","1","0"," ","J","U","N"," ",
                  "G","R","A","B"," ","7",".","0","0">>,
                <<"0","7"," ","J","U","N"," ","0","7"," ","J","U","N"," ",
                  "C","R"," "," ","I","N","T","E","R","E","S","T">>,
                <<"1",",","0","1","6",".","8","4"," ","C","R">> >>

UOB_Headers == {<<>>, <<1>>, <<2>>}

UOB_Ends == {<<>>, <<3>>}

UOB_BodyIds == {4, 5, 6, 8, 9, 10}

UOB_BatchBodyIds == {6, 11}

\* the documents of a run over one document
UOB_ExtraDocs ==
    { <<1, 12, 5, 3>>, <<1, 12, 13, 3>>, <<1, 4, 13, 3>>, <<1, 6, 7, 5, 8, 3>>,
      <<1, 4, 8, 7, 5, 3>>, <<1, 4, 7, 3>>, <<1, 10, 7, 8, 3>>, <<1, 7, 6, 3>>,
      <<3, 1, 6, 3, 10, 3>>, <<1, 6, 3, 1, 11, 3>>, <<1, 8, 4, 5, 10, 6, 3>> }

UOB_Docs ==
    {hdr \o body \o end :
        hdr \in UOB_Headers, body \in SeqUpTo(UOB_BodyIds, MaxBody), end \in UOB_Ends}
      \cup {<<3, 1>> \o body \o end :
                body \in SeqUpTo(UOB_BodyIds, MaxBody), end \in UOB_Ends}
      \cup UOB_ExtraDocs

\* the documents of a batch of several: MaxBatchBody lines between header and end
\* marker, a document without a header, and a file that is no PDF
UOB_BatchDocs ==
    {<<1>> \o body \o <<3>> :
        body \in {b \in SeqUpTo(UOB_BatchBodyIds, MaxBatchBody) : Len(b) = MaxBatchBody}}
      \cup {<<6, 3>>, Unreadable}

OCBC_LineTable ==
    << OCBC_start_marker,
       OCBC_end_marker,
                <<"1","4","/","0","3"," ","B","U","S","/","M","R","T"," ",
                  "3",".","9","5">>,
                <<"0","2","/","0","4"," ","P","A","Y","M","E","N","T"," ",
                  "B","Y"," "," ","I","N","T","E","R","N","E","T"," ","(",
                  "2","4","1",".","7","5",")">>,
                <<"S","I","N","G","A","P","O","R","E"," ","S","G">>,
                <<"P","A","G","E"," ","1"," ","O","F"," ","2">>,
                <<"1","5","/","0","3"," ","N","T","U","C">>,
                <<"2","8","/","0","3"," ","C","A","S","H"," ","R","E","B",
                  "A","T","E"," ","1",",","0","0","0",".","6","5">>,
                <<"0","2","/","1","3"," ","F","E","E"," ","1",".","0","0">> >>

OCBC_Headers == {<<>>, <<1>>}

OCBC_Ends == {<<>>, <<2>>}

OCBC_BodyIds == {3, 4, 5, 6, 7}

OCBC_BatchBodyIds == {3, 4}

OCBC_ExtraDocs ==
    { <<1, 8, 2>>, <<1, 9, 5, 2>>, <<1, 3, 8, 9, 2>>, <<1, 8, 5, 6, 5, 3, 2>>,
      <<2, 1, 3, 2, 4, 2>>, <<1, 3, 2, 1, 4, 2>> }

OCBC_Docs ==
    {hdr \o body \o end :
        hdr \in OCBC_Headers, body \in SeqUpTo(OCBC_BodyIds, MaxBody),
        end \in OCBC_Ends}
      \cup {<<2, 1>> \o body \o end :
                body \in SeqUpTo(OCBC_BodyIds, MaxBody), end \in OCBC_Ends}
      \cup OCBC_ExtraDocs

OCBC_BatchDocs ==
    {<<1>> \o body \o <<2>> :
        body \in {b \in SeqUpTo(OCBC_BatchBodyIds, MaxBatchBody) : Len(b) = MaxBatchBody}}
      \cup {<<3, 2>>, Unreadable}

\* AMEX: the header may come again among the body lines (a table over several pages)
AMEX_LineTable ==
    <<
                <<"D","e","t","a","i","l","s"," ","F","o","r","e","i","g",
                  "n"," ","S","p","e","n","d","i","n","g"," ","A","m","o",
                  "u","n","t"," ","S","$">>,
       AMEX_end_marker,
                <<"1","9",".","0","1",".","2","1"," ","X","T","R","A"," ",
                  "A","M","K"," ","H","U","B"," ","2","5",".","3","5">>,
                <<"3","1",".","0","1",".","2","1"," ","P","A","Y","M","E",
                  "N","T"," ","7","2","3",".","4","0","C","R">>,
                <<"C","R">>,
                <<"S","I","N","G","A","P","O","R","E">>,
                <<"P","a","g","e"," ","2"," ","o","f"," ","3">>,
                <<"3","1",".","1","3",".","2","1"," ","F","E","E"," ","1",
                  ".","0","0">>,
                <<"2","5",".","1","0",".","2","0"," ","N","T","U","C"," ",
                  " ","F","A","I","R","P","R","I","C","E"," ","1",",","2",
                  "3","4",".","5","6">> >>

AMEX_Headers == {<<>>, <<1>>}

AMEX_Ends == {<<>>, <<2>>}

AMEX_BodyIds == {1, 3, 4, 5, 6}

AMEX_BatchBodyIds == {3, 4}

AMEX_ExtraDocs ==
    { <<1, 3, 9, 6, 5, 2>>, <<1, 3, 4, 6, 5, 2>>, <<1, 3, 7, 9, 2>>,
      <<1, 3, 9, 1, 6, 5>>, <<1, 3, 5, 5, 9, 2>>, <<1, 8, 2>>, <<1, 8, 5, 9, 2>>,
      <<1, 9, 6, 2>>, <<1, 7, 9, 5, 2>>, <<1, 3, 1, 5, 9, 2>> }

AMEX_Docs ==
    {hdr \o body \o end :
        hdr \in AMEX_Headers, body \in SeqUpTo(AMEX_BodyIds, MaxBody),
        end \in AMEX_Ends}
      \cup AMEX_ExtraDocs

AMEX_BatchDocs ==
    {<<1>> \o body \o <<2>> :
        body \in {b \in SeqUpTo(AMEX_BatchBodyIds, MaxBatchBody) : Len(b) = MaxBatchBody}}
      \cup {<<3, 2>>, Unreadable}

FS_LineTable ==
    << FS_start_marker,
       FS_end_marker,
                <<"1","9","/","1","1","/","2","0","2","5"," ","C","R","C",
                  "7","7","8","9","4","1","9"," ","C","R"," ","N","o","t",
                  "e"," ","W",".","E",".","F"," ","2","2"," ","M","A","Y",
                  " ","3","1",".","0","7"," ","3","1",".","0","7">>,
                <<"1","9","/","1","1","/","2","0","2","5"," ","D","R","C",
                  "7","7","8","9","4","1","9"," ","D","R"," ","N","o","t",
                  "e"," ","H","A","N","D","L","I","N","G"," ","4",".","2",
                  "0"," ","2","6",".","8","7">>,
                <<"C","H","A","R","G","E","S","-","H","E","I","M">>,
                <<"0","3","/","1","1","/","2","0","2","5"," ","C","R","C",
                  "7","7","8","0","8","8","6"," ","C","R"," ","N","o","t",
                  "e"," ","W",".","E",".","F"," ","2","2"," ","M","A","Y",
                  " ","1",",","0","0","0",".","0","0"," ","1",",","0","0",
                  "0",".","0","0">>,
                <<"0","1","/","1","1","/","2","0","2","5"," ","I","N","T",
                  "0","0","1"," ","C","R"," ","N","o","t","e"," ","I","N",
                  "T","E","R","E","S","T"," ","C","R","E","D","I","T"," ",
                  "B","I","L"," ","0",".","1","0"," ","0",".","1","0">>,
       <<>>,
                <<"T","h","i","s"," ","s","t","a","t","e","m","e","n","t",
                  " ","i","s"," ","c","o","m","p","u","t","e","r"," ","g",
                  "e","n","e","r","a","t","e","d"," ","a","n","d"," ","n",
                  "e","e","d","s"," ","n","o"," ","s","i","g","n","a","t",
                  "u","r","e">> >>

FS_Headers == {<<>>, <<1>>}

FS_Ends == {<<>>, <<2>>}

FS_BodyIds == {3, 4, 5, 8, 9}

FS_ExtraDocs ==
    { <<1, 6, 2>>, <<1, 7, 5, 2>>, <<1, 3, 6, 7, 4, 2>>, <<1, 6, 5, 8, 5, 2>>,
      <<1, 7>>, <<9, 1, 6, 4, 5, 2, 9>> }

FS_Docs ==
    {hdr \o body \o end :
        hdr \in FS_Headers, body \in SeqUpTo(FS_BodyIds, MaxBody), end \in FS_Ends}
      \cup FS_ExtraDocs

LineTable(p) ==
    CASE p = "UOB"  -> UOB_LineTable
      [] p = "OCBC" -> OCBC_LineTable
      [] p = "AMEX" -> AMEX_LineTable
      [] p = "FS"   -> FS_LineTable
      [] p = "CDP"  -> CDP_LineTable
      [] p = "SRS"  -> SRS_LineTable

(***************************************************************************)
(* The files of a run.  A file is [path |-> the parts of its path under    *)
(* base_dir, doc |-> its document].  rglob yields the files in an order of *)
(* its own; sorted() orders them as pathlib orders paths.                  *)
(***************************************************************************)
\* the characters of the path names in the order of their code points
CharOrder == <<" ", "(", ")", "-", ".">> \o <<"0","1","2","3","4","5","6","7","8","9">>
                 \o UpperLetters \o LowerLetters

CharCode(c) == CHOOSE n \in 1..Len(CharOrder) : CharOrder[n] = c

\* a < b of two str: by code point, a proper prefix first
RECURSIVE StrLess(_, _)
StrLess(a, b) ==
    IF b = <<>> THEN FALSE
    ELSE IF a = <<>> THEN TRUE
    ELSE IF a[1] = b[1] THEN StrLess(Tail(a), Tail(b))
    ELSE CharCode(a[1]) < CharCode(b[1])

\* p < q of two paths: their lists of parts compare as lists of str
RECURSIVE PathLess(_, _)
PathLess(p, q) ==
    IF q = <<>> THEN FALSE
    ELSE IF p = <<>> THEN TRUE
    ELSE IF p[1] = q[1] THEN PathLess(Tail(p), Tail(q))
    ELSE StrLess(p[1], q[1])

\* the files with file f put at its place in the ordered list s
RECURSIVE InsertFile(_, _)
InsertFile(f, s) ==
    IF s = <<>> THEN <<f>>
    ELSE IF PathLess(f.path, s[1].path) THEN <<f>> \o s
    ELSE <<s[1]>> \o InsertFile(f, Tail(s))

\* the files in the order rglob yields them
sorted_AsListed(files) == files

\* sorted(base_dir.rglob("*.pdf"))
RECURSIVE sorted(_)
sorted(files) ==
    IF files = <<>> THEN <<>>
    ELSE InsertFile(files[1], sorted(Tail(files)))

\* the paths of the files of the model, under base_dir
PathPool ==
    << <<
                <<"2","0","2","3">>,
                <<"a",".","p","d","f">> >>,
       <<
                <<"b",".","p","d","f">> >>,
       <<
                <<"2","0","2","2">>,
                <<"c",".","p","d","f">> >> >>

\* the one-to-one maps of 1..n onto itself
Perms(n) == {f \in [1..n -> 1..n] : \A a, b \in 1..n : f[a] = f[b] => a = b}

\* the listings: one file with a document of the large set, or several files with
\* documents of the small set, yielded in any order
Listings(docs, batchDocs) ==
    {<<[path |-> PathPool[1], doc |-> d]>> : d \in docs}
        \cup {[n \in 1..Len(b) |-> [path |-> PathPool[f[n]], doc |-> b[n]]] :
                 b \in {c \in SeqUpTo(batchDocs, MaxDocs) : Len(c) >= 2},
                 f \in Perms(MaxDocs)}

\* the listing of a script that reads the one file it names in pdf_path
OneFile(d) == <<[path |-> PathPool[2], doc |-> d]>>

\* the documents of the files in the order rglob yields them
SortedDocs_AsListed(files) == [n \in 1..Len(files) |-> files[n].doc]

\* the documents of the files in the order of sorted()
SortedDocs(files) == [n \in 1..Len(files) |-> sorted(files)[n].doc]

\* the path of the file the batch loop is at
pdf_file == sorted(listing)[k].path

\* base_dir.name
base_dir_name ==
    CASE parser = "UOB"  -> <<"U","O","B">>
      [] parser = "OCBC" -> <<"O","C","B","C">>
      [] parser = "AMEX" -> <<"A","m","e","x">>

\* the name of the file where lines 270-273 take the first folder
get_subfolder_year_FileName(pdf_path) == pdf_path[Len(pdf_path)]

\* get_subfolder_year, get_subfolder_name: the first folder under base_dir, or the
\* name of base_dir for a file directly in it
get_subfolder_year(pdf_path) ==
    IF Len(pdf_path) >= 2 THEN pdf_path[1] ELSE base_dir_name


\* "\n".join((page.extract_text() or "") for page in pdf.pages): the text of a document
ExtractText(p, doc) == join(<<"\n">>, [n \in 1..Len(doc) |-> LineTable(p)[doc[n]]])

\* the text of the document the batch loop is at
all_text == ExtractText(parser, pdf_files[k])

\* the end of the batch loop: df.to_excel writes the rows of all documents
WriteOutput ==
    /\ parser \in {"UOB", "OCBC", "AMEX"}
    /\ pc = "next_file"
    /\ k > Len(pdf_files)
    /\ output' = all_rows
    /\ pc' = "done"
    /\ UNCHANGED <<parser, listing, args, earlier, folder, pdf_files, k, section, lines, lineSrc, i, rows, rowSrc,
                   current_post, current_trans, buffer_lines, bufSrc, flushed, used,
                   all_rows>>

InitCommon ==
    /\ k = 1
    /\ pc = "next_file"
    /\ section = None
    /\ lines = <<>>
    /\ lineSrc = <<>>
    /\ i = 0
    /\ rows = <<>>
    /\ rowSrc = <<>>
    /\ current_post = None
    /\ current_trans = None
    /\ buffer_lines = <<>>
    /\ bufSrc = <<>>
    /\ flushed = <<>>
    /\ used = {}
    /\ all_rows = <<>>
    /\ output = None

(***************************************************************************)
(* UOB: extract_rows_from_pdf and the batch loop.                          *)
(***************************************************************************)
\* the pending record as flush finds it
Pending == [post |-> current_post, trans |-> current_trans,
            buf |-> buffer_lines, src |-> bufSrc]

\* a flush that puts the new row before the rows collected so far
UOB_flush_Prepends(rws, post, trans, buf) ==
    IF post # None /\ post # <<>> /\ trans # None /\ trans # <<>> /\ buf # <<>>
    THEN LET Add(rec) ==
                 IF rec # <<>>
                 THEN <<rec[1] @@ [year |-> get_subfolder_year(pdf_file)]>> \o rws
                 ELSE rws
         IN  Add(parse_tx_from_buffer(post, trans, buf))
    ELSE rws

\* flush: the rows after it; a new row gets the folder of the file as its year
UOB_flush(rws, post, trans, buf) ==
    IF post # None /\ post # <<>> /\ trans # None /\ trans # <<>> /\ buf # <<>>
    THEN LET Add(rec) ==
                 IF rec # <<>>
                 THEN Append(rws, rec[1] @@ [year |-> get_subfolder_year(pdf_file)])
                 ELSE rws
         IN  Add(parse_tx_from_buffer(post, trans, buf))
    ELSE rws

\* history of flush: the record handed to it, and the line that started a new row
FlushLog == IF current_post # None THEN Append(flushed, Pending) ELSE flushed

FlushRowSrc ==
    IF Len(UOB_flush(rows, current_post, current_trans, buffer_lines)) > Len(rows)
    THEN Append(rowSrc, bufSrc[1])
    ELSE rowSrc

\* lines 277-287: bound the section; without one the document gives no rows
UOB_Open ==
    /\ parser = "UOB"
    /\ pc = "next_file"
    /\ k <= Len(pdf_files)
    /\ IF pdf_files[k] = Unreadable
       THEN /\ pc' = "raised PDFSyntaxError"
            /\ UNCHANGED <<parser, listing, args, earlier, folder, pdf_files, k, section, lines, lineSrc,
                           i, rows, rowSrc, current_post, current_trans, buffer_lines,
                           bufSrc, flushed, used, all_rows, output>>
       ELSE
           /\ LET sec == UOB_extract_section_text(all_text)
              IN  IF sec = None \/ sec = <<>>
                  THEN /\ k' = k + 1
                       /\ section' = None
                       /\ lines' = <<>>
                       /\ lineSrc' = <<>>
                       /\ UNCHANGED pc
                  ELSE /\ section' = sec
                       /\ lines' = UOB_clean_lines(sec)
                       /\ lineSrc' = UOB_clean_src(sec)
                       /\ pc' = "loop"
                       /\ UNCHANGED k
           /\ i' = 0
           /\ rows' = <<>>
           /\ rowSrc' = <<>>
           /\ current_post' = None
           /\ current_trans' = None
           /\ buffer_lines' = <<>>
           /\ bufSrc' = <<>>
           /\ flushed' = <<>>
           /\ used' = {}
           /\ UNCHANGED <<parser, listing, args, earlier, folder, pdf_files, all_rows, output>>

\* lines 301-313: one iteration of the while loop
UOB_Step ==
    /\ parser = "UOB"
    /\ pc = "loop"
    /\ i < Len(lines)
    /\ LET ln == strip(lines[i + 1])
           m  == UOB_TX_START_RE(ln)
       IN  IF m.ok
           THEN /\ rows' = UOB_flush(rows, current_post, current_trans, buffer_lines)
                /\ rowSrc' = FlushRowSrc
                /\ flushed' = FlushLog
                /\ current_post' = m.post
                /\ current_trans' = m.trans
                /\ buffer_lines' = <<strip(m.rest)>>
                /\ bufSrc' = <<i + 1>>
                /\ used' = used \cup {lineSrc[i + 1]}
           ELSE IF current_post # None
           THEN /\ buffer_lines' = Append(buffer_lines, ln)
                /\ bufSrc' = Append(bufSrc, i + 1)
                /\ used' = used \cup {lineSrc[i + 1]}
                /\ UNCHANGED <<rows, rowSrc, flushed, current_post, current_trans>>
           ELSE UNCHANGED <<rows, rowSrc, flushed, current_post, current_trans,
                            buffer_lines, bufSrc, used>>
    /\ i' = i + 1
    /\ UNCHANGED <<parser, listing, args, earlier, folder, pdf_files, k, pc, section, lines, lineSrc, all_rows, output>>

\* lines 315-318 and 324: the last flush, the return and all_rows.extend
UOB_Return ==
    /\ parser = "UOB"
    /\ pc = "loop"
    /\ i >= Len(lines)
    /\ rows' = UOB_flush(rows, current_post, current_trans, buffer_lines)
    /\ rowSrc' = FlushRowSrc
    /\ flushed' = FlushLog
    /\ current_post' = None
    /\ current_trans' = None
    /\ buffer_lines' = <<>>
    /\ bufSrc' = <<>>
    /\ all_rows' = all_rows \o rows'
    /\ k' = k + 1
    /\ pc' = "next_file"
    /\ UNCHANGED <<parser, listing, args, earlier, folder, pdf_files, section, lines, lineSrc, i, used, output>>

InitUOB ==
    /\ parser = "UOB"
    /\ listing \in Listings(UOB_Docs, UOB_BatchDocs)
    /\ pdf_files = SortedDocs(listing)
    /\ args = <<>>
    /\ earlier = <<>>
    /\ folder = {}
    /\ InitCommon

NextUOB == UOB_Open \/ UOB_Step \/ UOB_Return \/ WriteOutput

SpecUOB == InitUOB /\ [][NextUOB]_vars

(***************************************************************************)
(* OCBC: extract_rows_from_pdf and the batch loop.                         *)
(***************************************************************************)
\* lines 113-146: bound the block; without one the document gives no rows
OCBC_Open ==
    /\ parser = "OCBC"
    /\ pc = "next_file"
    /\ k <= Len(pdf_files)
    /\ IF pdf_files[k] = Unreadable
       THEN /\ pc' = "raised PDFSyntaxError"
            /\ UNCHANGED <<parser, listing, args, earlier, folder, pdf_files, k, section, lines, lineSrc,
                           i, rows, rowSrc, current_post, current_trans, buffer_lines,
                           bufSrc, flushed, used, all_rows, output>>
       ELSE
           /\ LET sec == OCBC_block(all_text)
              IN  IF sec = None
                  THEN /\ k' = k + 1
                       /\ section' = None
                       /\ lines' = <<>>
                       /\ lineSrc' = <<>>
                       /\ UNCHANGED pc
                  ELSE /\ section' = sec
                       /\ lines' = OCBC_clean_lines(sec)
                       /\ lineSrc' = OCBC_clean_src(sec)
                       /\ pc' = "loop"
                       /\ UNCHANGED k
           /\ i' = 0
           /\ rows' = <<>>
           /\ rowSrc' = <<>>
           /\ flushed' = <<>>
           /\ used' = {}
           /\ UNCHANGED <<parser, listing, args, earlier, folder, pdf_files, current_post, current_trans, buffer_lines,
                          bufSrc, all_rows, output>>

\* lines 151-168: one iteration of the while loop
OCBC_Step ==
    /\ parser = "OCBC"
    /\ pc = "loop"
    /\ i < Len(lines)
    /\ LET line == lines[i + 1]
           year_value == get_subfolder_year(pdf_file)
           Loop(rec, cont) ==
               IF rec # <<>>
               THEN /\ rows' = Append(rows,
                          [year |-> year_value] @@
                          IF cont
                          THEN [rec[1] EXCEPT !.desc = strip(@ \o <<" ">> \o lines[i + 2])]
                          ELSE rec[1])
                    /\ rowSrc' = Append(rowSrc, i + 1)
                    /\ used' = used \cup {lineSrc[i + 1]}
                                  \cup (IF cont THEN {lineSrc[i + 2]} ELSE {})
                    /\ i' = IF cont THEN i + 2 ELSE i + 1
               ELSE /\ i' = i + 1
                    /\ UNCHANGED <<rows, rowSrc, used>>
       IN  Loop(OCBC_parse_transaction_line(line), OCBC_IsContinuation(lines, i + 1))
    /\ UNCHANGED <<parser, listing, args, earlier, folder, pdf_files, k, pc, section, lines, lineSrc, current_post,
                   current_trans, buffer_lines, bufSrc, flushed, all_rows, output>>

\* lines 170-171 and 178: the return and all_rows.extend
OCBC_Return ==
    /\ parser = "OCBC"
    /\ pc = "loop"
    /\ i >= Len(lines)
    /\ all_rows' = all_rows \o rows
    /\ k' = k + 1
    /\ pc' = "next_file"
    /\ UNCHANGED <<parser, listing, args, earlier, folder, pdf_files, section, lines, lineSrc, i, rows, rowSrc,
                   current_post, current_trans, buffer_lines, bufSrc, flushed, used,
                   output>>

InitOCBC ==
    /\ parser = "OCBC"
    /\ listing \in Listings(OCBC_Docs, OCBC_BatchDocs)
    /\ pdf_files = SortedDocs(listing)
    /\ args = <<>>
    /\ earlier = <<>>
    /\ folder = {}
    /\ InitCommon

NextOCBC == OCBC_Open \/ OCBC_Step \/ OCBC_Return \/ WriteOutput

SpecOCBC == InitOCBC /\ [][NextOCBC]_vars

(***************************************************************************)
(* AMEX: extract_rows_from_pdf and the batch loop.                         *)
(***************************************************************************)
\* lines 140-161: the segments and the clean lines; without a segment the document
\* gives no rows.  section holds the list of segments.
AMEX_Open ==
    /\ parser = "AMEX"
    /\ pc = "next_file"
    /\ k <= Len(pdf_files)
    /\ IF pdf_files[k] = Unreadable
       THEN /\ pc' = "raised PDFSyntaxError"
            /\ UNCHANGED <<parser, listing, args, earlier, folder, pdf_files, k, section, lines, lineSrc,
                           i, rows, rowSrc, current_post, current_trans, buffer_lines,
                           bufSrc, flushed, used, all_rows, output>>
       ELSE
           /\ LET segments == extract_marker_segments(all_text)
              IN  IF segments = <<>>
                  THEN /\ k' = k + 1
                       /\ section' = <<>>
                       /\ lines' = <<>>
                       /\ lineSrc' = <<>>
                       /\ UNCHANGED pc
                  ELSE /\ section' = segments
                       /\ lines' = AMEX_clean_lines(segments)
                       /\ lineSrc' = AMEX_clean_src(segments)
                       /\ pc' = "loop"
                       /\ UNCHANGED k
           /\ i' = 0
           /\ rows' = <<>>
           /\ rowSrc' = <<>>
           /\ flushed' = <<>>
           /\ used' = {}
           /\ UNCHANGED <<parser, listing, args, earlier, folder, pdf_files, current_post, current_trans, buffer_lines,
                          bufSrc, all_rows, output>>

\* the standalone "CR" applied to rows[0] where lines 170-173 take rows[-1]
AMEX_StandaloneCR_FirstRow(rws) ==
    IF rws # <<>> /\ ~Parenthesized(strip(rws[1].amount))
    THEN [rws EXCEPT ![1].amount = format_amount_for_excel(strip(@), TRUE)]
    ELSE rws

\* lines 169-175: a line that is "CR" alone turns the amount of the last row into a credit
AMEX_StandaloneCR(rws) ==
    IF rws # <<>> /\ ~Parenthesized(strip(rws[Len(rws)].amount))
    THEN [rws EXCEPT ![Len(rws)].amount = format_amount_for_excel(strip(@), TRUE)]
    ELSE rws

\* lines 182-193: a transaction line, with the "CR" line that may follow it
AMEX_Record(clean, n) ==
    LET rec == AMEX_parse_transaction_line(clean[n])[1]
    IN  IF n + 1 <= Len(clean) /\ strip(clean[n + 1]) = <<"C","R">>
        THEN [rec EXCEPT !.amount = format_amount_for_excel(@, TRUE)]
        ELSE rec

\* lines 165-193: one iteration of the while loop
AMEX_Step ==
    /\ parser = "AMEX"
    /\ pc = "loop"
    /\ i < Len(lines)
    /\ LET line == strip(lines[i + 1])
       IN  IF line = <<"C","R">>
           THEN /\ rows' = AMEX_StandaloneCR(rows)
                /\ i' = i + 1
                /\ UNCHANGED <<rowSrc, used>>
           ELSE IF ~AMEX_DATE_DDMMYY_DOTS_RE(line)
           THEN /\ i' = i + 1
                /\ UNCHANGED <<rows, rowSrc, used>>
           ELSE IF AMEX_parse_transaction_line(line) = <<>>
           THEN /\ i' = i + 1
                /\ UNCHANGED <<rows, rowSrc, used>>
           ELSE LET cr == i + 2 <= Len(lines) /\ strip(lines[i + 2]) = <<"C","R">>
                IN  /\ rows' = Append(rows, AMEX_Record(lines, i + 1))
                    /\ rowSrc' = Append(rowSrc, i + 1)
                    /\ used' = used \cup {lineSrc[i + 1]}
                    /\ i' = IF cr THEN i + 2 ELSE i + 1
    /\ UNCHANGED <<parser, listing, args, earlier, folder, pdf_files, k, pc, section, lines, lineSrc, current_post,
                   current_trans, buffer_lines, bufSrc, flushed, all_rows, output>>

\* lines 195-196 and 201: the return and all_rows.extend
AMEX_Return ==
    /\ parser = "AMEX"
    /\ pc = "loop"
    /\ i >= Len(lines)
    /\ all_rows' = all_rows \o rows
    /\ k' = k + 1
    /\ pc' = "next_file"
    /\ UNCHANGED <<parser, listing, args, earlier, folder, pdf_files, section, lines, lineSrc, i, rows, rowSrc,
                   current_post, current_trans, buffer_lines, bufSrc, flushed, used,
                   output>>

InitAMEX ==
    /\ parser = "AMEX"
    /\ listing \in Listings(AMEX_Docs, AMEX_BatchDocs)
    /\ pdf_files = SortedDocs(listing)
    /\ args = <<>>
    /\ earlier = <<>>
    /\ folder = {}
    /\ InitCommon

NextAMEX == AMEX_Open \/ AMEX_Step \/ AMEX_Return \/ WriteOutput

SpecAMEX == InitAMEX /\ [][NextAMEX]_vars


\* lines 163-196 as a function: the rows the while loop returns for the clean lines
\* clean, from index n with the rows rws collected so far
RECURSIVE AMEX_StitchFrom(_, _, _)
AMEX_StitchFrom(clean, n, rws) ==
    IF n >= Len(clean) THEN rws
    ELSE IF strip(clean[n + 1]) = <<"C","R">>
    THEN AMEX_StitchFrom(clean, n + 1, AMEX_StandaloneCR(rws))
    ELSE IF ~AMEX_DATE_DDMMYY_DOTS_RE(strip(clean[n + 1]))
    THEN AMEX_StitchFrom(clean, n + 1, rws)
    ELSE IF AMEX_parse_transaction_line(strip(clean[n + 1])) = <<>>
    THEN AMEX_StitchFrom(clean, n + 1, rws)
    ELSE AMEX_StitchFrom(clean,
                         IF n + 2 <= Len(clean) /\ strip(clean[n + 2]) = <<"C","R">>
                         THEN n + 2 ELSE n + 1,
                         Append(rws, AMEX_Record(clean, n + 1)))

\* lines 149-196 applied to a list of segments
AMEX_RowsOfSegments(segments) == AMEX_StitchFrom(AMEX_clean_lines(segments), 0, <<>>)
(***************************************************************************)
(* FS: the module-level code of AutomateParsingForeignStocks.py, which     *)
(* reads one document.                                                     *)
(***************************************************************************)
\* lines 109-114: every page's text followed by "\n"
FS_all_text == all_text \o <<"\n">>

\* lines 109-137: read the text and bound the section; a missing start marker raises
\* ValueError, a missing end marker only prints a warning
FS_Bound ==
    /\ parser = "FS"
    /\ pc = "next_file"
    /\ IF FS_start_missing(FS_all_text)
       THEN /\ pc' = "raised ValueError"
            /\ UNCHANGED <<section, lines, lineSrc>>
       ELSE /\ section' = FS_section(FS_all_text)
            /\ lines' = StrippedLines(section')
            /\ lineSrc' = [n \in 1..Len(lines') |-> n]
            /\ pc' = "loop"
    /\ UNCHANGED <<parser, listing, args, earlier, folder, pdf_files, k, i, rows, rowSrc, current_post, current_trans,
                   buffer_lines, bufSrc, flushed, used, all_rows, output>>

\* lines 138-166: one iteration of the while loop
FS_Step ==
    /\ parser = "FS"
    /\ pc = "loop"
    /\ i < Len(lines)
    /\ LET line == lines[i + 1]
           Loop(record, cont) ==
               IF record # <<>>
               THEN /\ rows' = Append(rows,
                          IF cont
                          THEN [record[1] EXCEPT !.desc = @ \o <<" ">> \o strip(lines[i + 2])]
                          ELSE record[1])
                    /\ rowSrc' = Append(rowSrc, i + 1)
                    /\ used' = used \cup {lineSrc[i + 1]}
                                  \cup (IF cont THEN {lineSrc[i + 2]} ELSE {})
                    /\ i' = IF cont THEN i + 2 ELSE i + 1
               ELSE /\ i' = i + 1
                    /\ UNCHANGED <<rows, rowSrc, used>>
       IN  Loop(IF FS_date_re(line) THEN FS_parse_transaction_line(line) ELSE <<>>,
                FS_IsContinuation(lines, i + 1))
    /\ UNCHANGED <<parser, listing, args, earlier, folder, pdf_files, k, pc, section, lines, lineSrc, current_post,
                   current_trans, buffer_lines, bufSrc, flushed, all_rows, output>>

\* lines 175-231: clean the rows and write the workbook; with no row at all the
\* DataFrame has no columns and selecting the seven columns raises KeyError
FS_Write ==
    /\ parser = "FS"
    /\ pc = "loop"
    /\ i >= Len(lines)
    /\ IF rows = <<>>
       THEN /\ pc' = "raised KeyError"
            /\ UNCHANGED <<all_rows, output>>
       ELSE /\ all_rows' = [n \in 1..Len(rows) |-> FS_CleanRow(rows[n])]
            /\ output' = all_rows'
            /\ pc' = "done"
    /\ UNCHANGED <<parser, listing, args, earlier, folder, pdf_files, k, section, lines, lineSrc, i, rows, rowSrc,
                   current_post, current_trans, buffer_lines, bufSrc, flushed, used>>

InitFS ==
    /\ parser = "FS"
    /\ listing \in {OneFile(d) : d \in FS_Docs}
    /\ pdf_files = SortedDocs(listing)
    /\ args = <<>>
    /\ earlier = <<>>
    /\ folder = {}
    /\ InitCommon

NextFS == FS_Bound \/ FS_Step \/ FS_Write

SpecFS == InitFS /\ [][NextFS]_vars

(***************************************************************************)
(* CDP and SRS: the module-level code of AutomateParsingCDP.py and of      *)
(* AutomateParsingSRS.py.  Each reads one document page by page; the       *)
(* document is a sequence of pages, a page a sequence of indices into the  *)
(* line table, and k is the position of the page loop.                     *)
(***************************************************************************)
MaxPages == 2       \* pages of a document of several pages

DividendBodyIds == {3, 4, 5, 6}

DividendPageBodyIds == {3, 5}

\* a document of one page: an optional header, body lines, an optional end marker
OnePageDocs ==
    {<<hdr \o body \o end>> :
        hdr \in {<<>>, <<1>>}, body \in SeqUpTo(DividendBodyIds, MaxBody),
        end \in {<<>>, <<2>>}}

\* the pages of a document of several: with both markers or with none
PagesOfSeveral ==
    {hdr \o body \o (IF hdr = <<>> THEN <<>> ELSE <<2>>) :
        hdr \in {<<>>, <<1>>},
        body \in {b \in SeqUpTo(DividendPageBodyIds, MaxBatchBody) : Len(b) = MaxBatchBody}}

DividendDocs ==
    OnePageDocs \cup {d \in SeqUpTo(PagesOfSeveral, MaxPages) : Len(d) >= 2}

\* pdf.pages of the document the script reads
pages == pdf_files[1]

\* page.extract_text() or ""
PageText == ExtractText(parser, pages[k])

\* the records of the lines of a section, in the order of the lines
RECURSIVE RecordsFrom(_, _, _)
RecordsFrom(parse(_), lns, n) ==
    IF n > Len(lns) THEN <<>>
    ELSE parse(lns[n]) \o RecordsFrom(parse, lns, n + 1)

\* history: for each record of the section of page k, the page and the index of its line
RecordSrc(parse(_), lns) ==
    LET hits == SelectSeq([n \in 1..Len(lns) |-> n], LAMBDA n : parse(lns[n]) # <<>>)
    IN  [n \in 1..Len(hits) |-> <<k, hits[n]>>]

InitPages ==
    /\ listing \in {OneFile(d) : d \in DividendDocs}
    /\ pdf_files = SortedDocs(listing)
    /\ args = <<>>
    /\ earlier = <<>>
    /\ folder = {}
    /\ k = 1
    /\ pc = "next_page"
    /\ section = None
    /\ lines = <<>>
    /\ lineSrc = <<>>
    /\ i = 0
    /\ rows = <<>>
    /\ rowSrc = <<>>
    /\ current_post = None
    /\ current_trans = None
    /\ buffer_lines = <<>>
    /\ bufSrc = <<>>
    /\ flushed = <<>>
    /\ used = {}
    /\ all_rows = <<>>
    /\ output = None

\* one iteration of "for page in pdf.pages": a page without the start marker is
\* skipped, else every stripped line of its section goes to parse_transaction_line
PageStep(start, end, parse(_)) ==
    /\ pc = "next_page"
    /\ k <= Len(pages)
    /\ k' = k + 1
    /\ IF ~Contains(PageText, start)
       THEN UNCHANGED <<section, lines, rows, rowSrc>>
       ELSE /\ section' = SectionOfPage(PageText, start, end)
            /\ lines' = StrippedLines(section')
            /\ rows' = rows \o RecordsFrom(parse, lines', 1)
            /\ rowSrc' = rowSrc \o RecordSrc(parse, lines')
    /\ UNCHANGED <<parser, listing, args, earlier, folder, pdf_files, pc, lineSrc, i, current_post,
                   current_trans, buffer_lines, bufSrc, flushed, used, all_rows, output>>

\* the code after the page loop: clean the rows and write the workbook; with no row
\* at all the DataFrame has no columns and selecting the seven columns raises KeyError
WriteStep(CleanRow(_)) ==
    /\ pc = "next_page"
    /\ k > Len(pages)
    /\ IF rows = <<>>
       THEN /\ pc' = "raised KeyError"
            /\ UNCHANGED <<all_rows, output>>
       ELSE /\ all_rows' = [n \in 1..Len(rows) |-> CleanRow(rows[n])]
            /\ output' = all_rows'
            /\ pc' = "done"
    /\ UNCHANGED <<parser, listing, args, earlier, folder, pdf_files, k, section, lines, lineSrc, i, rows, rowSrc,
                   current_post, current_trans, buffer_lines, bufSrc, flushed, used>>

\* AutomateParsingCDP.py lines 136-162
CDP_Page ==
    /\ parser = "CDP"
    /\ PageStep(CDP_start_marker, CDP_end_marker, CDP_parse_transaction_line)

\* AutomateParsingCDP.py lines 167-227
CDP_Write ==
    /\ parser = "CDP"
    /\ WriteStep(CDP_CleanRow)

InitCDP == parser = "CDP" /\ InitPages

NextCDP == CDP_Page \/ CDP_Write

SpecCDP == InitCDP /\ [][NextCDP]_vars

\* AutomateParsingSRS.py lines 96-120
SRS_Page ==
    /\ parser = "SRS"
    /\ PageStep(SRS_start_marker, SRS_end_marker, SRS_parse_transaction_line)

\* AutomateParsingSRS.py lines 127-183
SRS_Write ==
    /\ parser = "SRS"
    /\ WriteStep(SRS_CleanRow)

InitSRS == parser = "SRS" /\ InitPages

NextSRS == SRS_Page \/ SRS_Write

SpecSRS == InitSRS /\ [][NextSRS]_vars

(***************************************************************************)
(* Calls of single functions: parser names the function, args holds the    *)
(* arguments and output the value returned.                                *)
(***************************************************************************)
\* the variables of the document loop, which a call of one function never touches
InitCall ==
    /\ listing = <<>>
    /\ earlier = <<>>
    /\ folder = {}
    /\ pdf_files = <<>>
    /\ k = 1
    /\ pc = "call"
    /\ section = None
    /\ lines = <<>>
    /\ lineSrc = <<>>
    /\ i = 0
    /\ rows = <<>>
    /\ rowSrc = <<>>
    /\ current_post = None
    /\ current_trans = None
    /\ buffer_lines = <<>>
    /\ bufSrc = <<>>
    /\ flushed = <<>>
    /\ used = {}
    /\ all_rows = <<>>
    /\ output = None

\* a call returns: only pc and output change
Returns(value) ==
    /\ pc = "call"
    /\ pc' = "returned"
    /\ output' = value
    /\ UNCHANGED <<parser, listing, args, earlier, folder, pdf_files, k, section, lines, lineSrc, i, rows,
                   rowSrc, current_post, current_trans, buffer_lines, bufSrc, flushed,
                   used, all_rows>>

(***************************************************************************)
(* Amount tokens [0-9,]+\.\d{2} as the transaction patterns capture them:  *)
(* leading digits, up to MaxGroups groups of ",ddd", a point, two digits.  *)
(***************************************************************************)
MaxGroups == 2

AmountLeads == { <<"7">>, <<"1">>, <<"1","2">>, <<"1","2","3">> }

AmountGroups == { <<",","2","3","4">>, <<",","0","0","0">>, <<",","0","0","5">> }

AmountCents == { <<".","5","6">>, <<".","0","0">>, <<".","0","5">> }

RECURSIVE GroupRuns(_)
GroupRuns(n) ==
    IF n = 0 THEN { <<>> }
    ELSE GroupRuns(n - 1) \cup {r \o g : r \in GroupRuns(n - 1), g \in AmountGroups}

AmountTokens == {l \o r \o c : l \in AmountLeads, r \in GroupRuns(MaxGroups), c \in AmountCents}

\* the suffix group of the UOB amount patterns: absent, or CR or DR in either case
UOB_Suffixes == { None, <<"C","R">>, <<"D","R">>, <<"c","r">> }

InitAmounts ==
    /\ \/ /\ parser = "normalize_amount"
          /\ args \in {<<num, suffix>> : num \in AmountTokens, suffix \in UOB_Suffixes}
       \/ /\ parser = "format_amount_for_excel"
          /\ args \in {<<amount_str, is_credit>> :
                          amount_str \in AmountTokens, is_credit \in BOOLEAN}
    /\ InitCall

Call_normalize_amount ==
    /\ parser = "normalize_amount"
    /\ Returns(normalize_amount(args[1], args[2]))

Call_format_amount_for_excel ==
    /\ parser = "format_amount_for_excel"
    /\ Returns(format_amount_for_excel(args[1], args[2]))

NextAmounts == Call_normalize_amount \/ Call_format_amount_for_excel

SpecAmounts == InitAmounts /\ [][NextAmounts]_vars

(***************************************************************************)
(* Date tokens: every day of every month of a leap year; for AMEX with the *)
(* two-digit years of DateYears, a day the year does not have left out.    *)
(***************************************************************************)
DateYears == {0, 20, 21, 24, 68, 69, 99}

TwoChars(n) == <<DigitChar(n \div 10), DigitChar(n % 10)>>

DayMonths == {<<d, m>> \in (1..31) \X (1..12) : d <= DaysInMonth(2024, m)}

\* "13MAY", as the first group of the SRS pattern captures it
SRS_DateTokens == {TwoChars(dm[1]) \o AMEX_MONTHS[dm[2]] : dm \in DayMonths}

\* "25.10.20"
AMEX_DateTokens ==
    {t \in {TwoChars(dm[1]) \o <<".">> \o TwoChars(dm[2]) \o <<".">> \o TwoChars(y) :
                dm \in DayMonths, y \in DateYears} :
        ~AMEX_strptime_raises(t)}

\* "02/04"
OCBC_DateTokens == {TwoChars(dm[1]) \o <<"/">> \o TwoChars(dm[2]) : dm \in DayMonths}

\* the rest of a line of the SRS statement after its date token
SRS_LineRest ==
                <<" ","C","R"," ","D","I","V","I","D","E","N","D","S"," ",
                  "F","O","R"," ","S","G","X"," ","3","4",".","0","0"," ",
                  "1","9",",","1","0","1",".","0","6">>

InitDates ==
    /\ \/ /\ parser = "SRS parse_transaction_line"
          /\ args \in {<<t \o SRS_LineRest>> : t \in SRS_DateTokens}
       \/ /\ parser = "format_date_and_year"
          /\ args \in {<<t>> : t \in AMEX_DateTokens}
       \/ /\ parser = "format_tx_date"
          /\ args \in {<<t>> : t \in OCBC_DateTokens}
    /\ InitCall

Call_SRS_parse_transaction_line ==
    /\ parser = "SRS parse_transaction_line"
    /\ Returns(SRS_parse_transaction_line(args[1]))

Call_format_date_and_year ==
    /\ parser = "format_date_and_year"
    /\ Returns(format_date_and_year(args[1]))

Call_format_tx_date ==
    /\ parser = "format_tx_date"
    /\ Returns(format_tx_date(args[1]))

NextDates == Call_SRS_parse_transaction_line \/ Call_format_date_and_year \/ Call_format_tx_date

SpecDates == InitDates /\ [][NextDates]_vars

(***************************************************************************)
(* A run of any of the four scripts.                                       *)
(***************************************************************************)
Init == InitUOB \/ InitOCBC \/ InitAMEX \/ InitFS

Next ==
    \/ UOB_Open \/ UOB_Step \/ UOB_Return
    \/ OCBC_Open \/ OCBC_Step \/ OCBC_Return
    \/ AMEX_Open \/ AMEX_Step \/ AMEX_Return
    \/ FS_Bound \/ FS_Step \/ FS_Write
    \/ WriteOutput

Spec == Init /\ [][Next]_vars

(***************************************************************************)
(* A run of any of the six scripts.                                        *)
(***************************************************************************)
InitAll == Init \/ InitCDP \/ InitSRS

NextAll == Next \/ CDP_Page \/ CDP_Write \/ SRS_Page \/ SRS_Write

SpecAll == InitAll /\ [][NextAll]_vars


(***************************************************************************)
(* A batch script run twice over the same files.  A run is a process of    *)
(* its own: the module-level statements build pdf_files and all_rows anew, *)
(* and rglob may yield the same files in another order.                    *)
(***************************************************************************)
\* the orders in which rglob can yield the files
Orders(files) == {[n \in 1..Len(files) |-> files[f[n]]] : f \in Perms(Len(files))}

\* the run has ended: the output file is written, or an exception has ended the script
Ended == pc \notin {"next_file", "loop"}

\* the script is started again when its first run has ended
Rerun ==
    /\ parser \in {"UOB", "OCBC", "AMEX"}
    /\ Ended
    /\ earlier = <<>>
    /\ earlier' = <<[listing |-> listing, pc |-> pc, output |-> output]>>
    /\ listing' \in Orders(listing)
    /\ pdf_files' = SortedDocs(listing')
    /\ k' = 1
    /\ pc' = "next_file"
    /\ section' = None
    /\ lines' = <<>>
    /\ lineSrc' = <<>>
    /\ i' = 0
    /\ rows' = <<>>
    /\ rowSrc' = <<>>
    /\ current_post' = None
    /\ current_trans' = None
    /\ buffer_lines' = <<>>
    /\ bufSrc' = <<>>
    /\ flushed' = <<>>
    /\ used' = {}
    /\ all_rows' = <<>>
    /\ output' = None
    /\ UNCHANGED <<parser, args, folder>>

\* the first run: one file with a document of the chosen cases, or several files
InitRerun ==
    /\ \/ parser = "UOB"  /\ listing \in Listings(UOB_ExtraDocs, UOB_BatchDocs)
       \/ parser = "OCBC" /\ listing \in Listings(OCBC_ExtraDocs, OCBC_BatchDocs)
       \/ parser = "AMEX" /\ listing \in Listings(AMEX_ExtraDocs, AMEX_BatchDocs)
    /\ pdf_files = SortedDocs(listing)
    /\ args = <<>>
    /\ earlier = <<>>
    /\ folder = {}
    /\ InitCommon

NextRerun ==
    \/ UOB_Open \/ UOB_Step \/ UOB_Return
    \/ OCBC_Open \/ OCBC_Step \/ OCBC_Return
    \/ AMEX_Open \/ AMEX_Step \/ AMEX_Return
    \/ WriteOutput
    \/ Rerun

SpecRerun == InitRerun /\ [][NextRerun]_vars

(***************************************************************************)
(* Magic Formula: 07-MagicFormula.py and 10-MagicFormulaHKSE.py            *)
(***************************************************************************)
\* end of the run of [A-Z0-9] that starts at p, with re.IGNORECASE
RECURSIVE SkipAlnum(_, _)
SkipAlnum(s, p) ==
    IF p <= Len(s) /\ (IsDigit(s[p]) \/ IsUpper(ToUpper(s[p])))
    THEN SkipAlnum(s, p + 1) ELSE p

\* TIKR\s*-\s*([A-Z0-9]+)\s*-\s*Financials matched at p: <<start, end>> of the group,
\* <<0, 0>> when there is no match at p
Magic_TickerAt(s, p) ==
    LET a == SkipSpaces(s, p + 4)
        b == SkipSpaces(s, a + 1)
        c == SkipAlnum(s, b)
        d == SkipSpaces(s, c)
        e == SkipSpaces(s, d + 1)
    IN  IF /\ StartsAtI(s, p,
                <<"T","I","K","R">>)
           /\ a <= Len(s) /\ s[a] = "-"
           /\ c > b
           /\ d <= Len(s) /\ s[d] = "-"
           /\ StartsAtI(s, e,
                <<"F","i","n","a","n","c","i","a","l","s">>)
        THEN <<b, c - 1>>
        ELSE <<0, 0>>

\* the file name gives no ticker: extract_ticker_from_filename raises ValueError
extract_ticker_raises(name) == \A p \in 1..Len(name) : Magic_TickerAt(name, p) = <<0, 0>>

\* lines 6-10: the ticker of the leftmost match, in upper case
extract_ticker_from_filename(name) ==
    LET p == CHOOSE q \in 1..Len(name) :
                /\ Magic_TickerAt(name, q) # <<0, 0>>
                /\ \A r \in 1..(q - 1) : Magic_TickerAt(name, r) = <<0, 0>>
        Group(g) == upper(Slice(name, g[1], g[2]))
    IN  Group(Magic_TickerAt(name, p))

\* -\s*([A-Z]{3})\s*\.xlsx$ with re.IGNORECASE matched at p (of the hyphen variants
\* of the pattern the names of the model hold "-" only)
Magic_CcyAt(s, p) ==
    LET a == SkipSpaces(s, p + 1)
        b == SkipSpaces(s, a + 3)
    IN  /\ p <= Len(s) /\ s[p] = "-"
        /\ a + 2 <= Len(s)
        /\ \A q \in a..(a + 2) : IsUpper(ToUpper(s[q]))
        /\ StartsAtI(s, b,
                <<".","x","l","s","x">>)
        /\ b + 5 = Len(s) + 1

\* lines 13-21 of 10-MagicFormulaHKSE.py: the three letters before ".xlsx", in upper
\* case, None without them
extract_ccy_from_filename(name) ==
    IF \E p \in 1..Len(name) : Magic_CcyAt(name, p)
    THEN LET p == CHOOSE q \in 1..Len(name) :
                     /\ Magic_CcyAt(name, q)
                     /\ \A r \in 1..(q - 1) : ~Magic_CcyAt(name, r)
             a == SkipSpaces(name, p + 1)
         IN  upper(Slice(name, a, a + 2))
    ELSE None

\* _norm: lower case, every character that is no letter and no digit a space, runs of
\* whitespace one space, stripped
Magic_norm(s) ==
    strip(CollapseSpaces([n \in 1..Len(s) |->
              IF IsDigit(s[n]) \/ ToLower(s[n]) \in LowerSet THEN ToLower(s[n]) ELSE " "]))

\* next((c for c in mc.columns if _norm(c) in names), None): the column is found
Magic_HasColumn(columns, names) ==
    \E n \in 1..Len(columns) : Magic_norm(columns[n]) \in names

Magic_ticker_names == {
                <<"t","i","c","k","e","r">>,
                <<"t","i","c","k","e","r","s">> }

Magic_company_names == {
                <<"c","o","m","p","a","n","y"," ","n","a","m","e">>,
                <<"c","o","m","p","a","n","y">> }

Magic_mkt_cap_names == {
                <<"m","k","t"," ","c","a","p">>,
                <<"m","a","r","k","e","t"," ","c","a","p">>,
                <<"m","a","r","k","e","t"," ","c","a","p","i","t","a","l",
                  "i","z","a","t","i","o","n">> }

\* HKD_TO_CCY_RATES, in hundredths
HKD_TO_CCY_RATES_keys == <<
                <<"C","N","Y">>,
                <<"U","S","D">>,
                <<"S","G","D">>,
                <<"E","U","R">>,
                <<"J","P","Y">> >>

HKD_TO_CCY_RATES_values == <<90, 13, 16, 11, 2019>>

\* ccy_u not in HKD_TO_CCY_RATES
Magic_rate_missing(ccy) ==
    \A n \in 1..Len(HKD_TO_CCY_RATES_keys) : HKD_TO_CCY_RATES_keys[n] # ccy

Magic_rate(ccy) ==
    HKD_TO_CCY_RATES_values[CHOOSE n \in 1..Len(HKD_TO_CCY_RATES_keys) :
                                HKD_TO_CCY_RATES_keys[n] = ccy]

\* a cell of the market cap column after pd.to_numeric(errors="coerce"): a number x
\* is Num(x), a cell that is no number is NaN
Num(x) == <<"num", x>>

NaN == <<"NaN">>

\* market_cap_HKD_to_ccy_millions raises ValueError: a number, a currency, no rate
market_cap_raises(mkt_cap_HKD, ccy) ==
    /\ mkt_cap_HKD # None
    /\ mkt_cap_HKD # NaN
    /\ ccy # None
    /\ Magic_rate_missing(ccy)

\* lines 102-125: the market cap in the currency of the file, in millions; the number
\* is held in hundredths of a millionth of a million, so that amt * rate / 1_000_000
\* is exact
market_cap_HKD_to_ccy_millions(mkt_cap_HKD, ccy) ==
    IF mkt_cap_HKD = None \/ mkt_cap_HKD = NaN THEN None
    ELSE IF ccy = None THEN Num(mkt_cap_HKD[2] * 100)
    ELSE Num(mkt_cap_HKD[2] * Magic_rate(ccy))

(***************************************************************************)
(* The runs of the two Magic Formula scripts.  args holds what the script  *)
(* finds on disk beside the TIKR files: whether the TIKR folder exists and *)
(* the market cap workbook (in a sequence that is empty when the file is   *)
(* missing).  listing holds the entries of the TIKR folder, a file being   *)
(* [path |-> <<name>>, doc |-> workbook].                                   *)
(***************************************************************************)
MaxFiles == 3       \* entries of the TIKR folder

\* a TIKR workbook whose sheets have date headers, and one whose sheets have none
Workbook ==
                <<"w","o","r","k","b","o","o","k">>

UndatedWorkbook ==
                <<"w","o","r","k","b","o","o","k"," ","w","i","t","h","o",
                  "u","t"," ","d","a","t","e"," ","h","e","a","d","e","r",
                  "s">>

Magic_NamePool ==
    <<
                <<"T","I","K","R"," ","-"," ","7","0","0"," ","-"," ","F",
                  "i","n","a","n","c","i","a","l","s"," ","(","H","K","D",
                  ")",".","x","l","s","x">>,
                <<"T","I","K","R"," ","-"," ","1","8","1","0"," ","-"," ",
                  "F","i","n","a","n","c","i","a","l","s"," ","(","H","K",
                  "D",")","-","U","S","D",".","x","l","s","x">>,
                <<"T","I","K","R"," ","-"," ","9","9","8","8"," ","-"," ",
                  "F","i","n","a","n","c","i","a","l","s"," ","(","H","K",
                  "D",")"," ","-"," ","g","b","p",".","x","l","s","x">>,
                <<"T","I","K","R"," ","-"," ","5",".","H","K"," ","-"," ",
                  "F","i","n","a","n","c","i","a","l","s"," ","(","H","K",
                  "D",")",".","x","l","s","x">>,
                <<"T","I","K","R"," ","-"," ","3","8","8"," ","-"," ","F",
                  "i","n","a","n","c","i","a","l","s","-","C","N","Y",".",
                  "x","l","s","x">>,
                <<"n","o","t","e","s",".","x","l","s","x">> >>

\* the entries the folder may hold: every name with a dated workbook, the first name
\* also with an undated one
Magic_FilePool ==
    {[path |-> <<Magic_NamePool[n]>>, doc |-> Workbook] : n \in 1..Len(Magic_NamePool)}
        \cup {[path |-> <<Magic_NamePool[1]>>, doc |-> UndatedWorkbook]}

\* the folders: up to MaxFiles entries with different names, in the order glob meets
\* them
Magic_Listings ==
    {l \in SeqUpTo(Magic_FilePool, MaxFiles) :
        \A a, b \in 1..Len(l) : l[a].path = l[b].path => a = b}

Magic_GoodColumns ==
    <<
                <<"T","i","c","k","e","r">>,
                <<"C","o","m","p","a","n","y"," ","N","a","m","e">>,
                <<"M","k","t"," ","C","a","p">> >>

Magic_ColumnSets ==
    { Magic_GoodColumns,
      <<
                <<"C","o","m","p","a","n","y">>,
                <<"M","a","r","k","e","t","-","C","a","p">>,
                <<"T","i","c","k","e","r","s">> >>,
      <<
                <<"C","o","m","p","a","n","y"," ","N","a","m","e">>,
                <<"M","k","t"," ","C","a","p">> >>,
      <<
                <<"T","i","c","k","e","r">>,
                <<"M","k","t"," ","C","a","p">> >>,
      <<
                <<"T","i","c","k","e","r">>,
                <<"C","o","m","p","a","n","y"," ","N","a","m","e">>,
                <<"L","a","s","t">> >> }

\* the rows of the market cap workbook: ticker cell, company cell, market cap cell
Magic_CellPool ==
    << [ticker |->
                <<" ","7","0","0"," ">>,
        company |->
                <<"T","e","n","c","e","n","t">>,
        cap |-> Num(5000000)],
       [ticker |->
                <<"9","9","8","8">>,
        company |->
                <<"A","l","i","b","a","b","a">>,
        cap |-> Num(3000000)],
       [ticker |->
                <<"1","8","1","0">>,
        company |->
                <<"X","i","a","o","m","i">>,
        cap |-> Num(200)],
       [ticker |->
                <<"3","8","8">>,
        company |->
                <<"H","K","E","X">>,
        cap |-> NaN] >>

\* the workbooks: all rows under every set of columns, and under the good columns
\* also the workbooks that lack some rows
Magic_Tables ==
    {[columns |-> c, cells |-> Magic_CellPool] : c \in Magic_ColumnSets}
        \cup {[columns |-> Magic_GoodColumns,
               cells |-> SelectSeq(Magic_CellPool, LAMBDA r : r.ticker \in keep)] :
                 keep \in SUBSET {Magic_CellPool[n].ticker : n \in {1, 3}}}

Magic_Configs ==
    {[tikr_dir |-> d, marketcap |-> m] :
        d \in BOOLEAN, m \in {<<>>} \cup {<<t>> : t \in Magic_Tables}}

\* name matches the glob pattern a*b*c
Glob3(name, a, b, c) ==
    /\ startswith(name, a)
    /\ endswith(name, c)
    /\ \E p \in (Len(a) + 1)..(Len(name) - Len(c) - Len(b) + 1) : StartsAt(name, p, b)

\* TIKR_DIR.glob("TIKR - * - Financials (*.xlsx") and the pattern of the HKSE script
Magic_glob(name) ==
    IF parser = "MagicFormula"
    THEN Glob3(name,
                <<"T","I","K","R"," ","-"," ">>,
                <<" ","-"," ","F","i","n","a","n","c","i","a","l","s"," ",
                  "(">>,
                <<".","x","l","s","x">>)
    ELSE Glob3(name,
                <<"T","I","K","R"," ","-"," ">>,
                <<" ","-"," ","F","i","n","a","n","c","i","a","l","s">>,
                <<".","x","l","s","x">>)

\* tikr_files = sorted(TIKR_DIR.glob(...))
tikr_files == sorted(SelectSeq(listing, LAMBDA f : Magic_glob(f.path[1])))

\* fpath.name in the loop
fpath_name == tikr_files[k].path[1]

\* mc_lookup: the ticker cells stripped and in upper case; .at and .iloc[0] give the
\* first row of a ticker
Magic_InLookup(ticker) ==
    \E n \in 1..Len(args.marketcap[1].cells) :
        upper(strip(args.marketcap[1].cells[n].ticker)) = ticker

Magic_LookupRow(ticker) ==
    args.marketcap[1].cells[CHOOSE n \in 1..Len(args.marketcap[1].cells) :
        /\ upper(strip(args.marketcap[1].cells[n].ticker)) = ticker
        /\ \A m \in 1..(n - 1) : upper(strip(args.marketcap[1].cells[m].ticker)) # ticker]

\* the ccy of the loop: the HKSE script reads it from the file name
Magic_ccy(name) ==
    IF parser = "MagicFormulaHKSE" THEN extract_ccy_from_filename(name) ELSE None

\* the market cap of the row.  07-MagicFormula.py, line 90: the column in millions, a
\* cell that is no number 0.  10-MagicFormulaHKSE.py, lines 175-176.
Magic_market_cap(ticker, ccy) ==
    IF ~Magic_InLookup(ticker) THEN None
    ELSE IF parser = "MagicFormula"
    THEN IF Magic_LookupRow(ticker).cap = NaN THEN Num(0)
         ELSE Num(Magic_LookupRow(ticker).cap[2] * 100)
    ELSE market_cap_HKD_to_ccy_millions(Magic_LookupRow(ticker).cap, ccy)

\* the row of a file; the figures read from its sheets stand as the workbook itself
Magic_Row(name, doc) ==
    [ticker     |-> extract_ticker_from_filename(name),
     company    |-> IF Magic_InLookup(extract_ticker_from_filename(name))
                    THEN Magic_LookupRow(extract_ticker_from_filename(name)).company
                    ELSE None,
     ccy        |-> Magic_ccy(name),
     market_cap |-> Magic_market_cap(extract_ticker_from_filename(name), Magic_ccy(name)),
     figures    |-> doc]

Magic_Unchanged ==
    UNCHANGED <<parser, listing, args, earlier, folder, section, lines, lineSrc, i, rowSrc,
                current_post, current_trans, buffer_lines, bufSrc, flushed, used, all_rows>>

\* 07-MagicFormula.py lines 67-104 (10-MagicFormulaHKSE.py lines 76-155): the checks
\* of the paths and of the columns, and the list of the files
Magic_Start ==
    /\ parser \in {"MagicFormula", "MagicFormulaHKSE"}
    /\ pc = "start"
    /\ IF ~args.tikr_dir
       THEN pc' = "raised FileNotFoundError: TIKR folder not found"
       ELSE IF args.marketcap = <<>>
       THEN pc' = "raised FileNotFoundError: MarketCap file not found"
       ELSE IF \/ ~Magic_HasColumn(args.marketcap[1].columns, Magic_ticker_names)
               \/ ~Magic_HasColumn(args.marketcap[1].columns, Magic_company_names)
       THEN pc' = "raised ValueError: columns Ticker and Company Name not found"
       ELSE IF ~Magic_HasColumn(args.marketcap[1].columns, Magic_mkt_cap_names)
       THEN pc' = "raised ValueError: column Mkt Cap not found"
       ELSE IF tikr_files = <<>>
       THEN pc' = "raised FileNotFoundError: No TIKR financial files found"
       ELSE pc' = "next_file"
    /\ pdf_files' = IF args.tikr_dir
                    THEN [n \in 1..Len(tikr_files) |-> tikr_files[n].doc] ELSE <<>>
    /\ UNCHANGED <<k, rows, output>>
    /\ Magic_Unchanged

\* the body of the loop over tikr_files
Magic_File ==
    /\ parser \in {"MagicFormula", "MagicFormulaHKSE"}
    /\ pc = "next_file"
    /\ k <= Len(pdf_files)
    /\ IF extract_ticker_raises(fpath_name)
       THEN /\ pc' = "raised ValueError: Could not extract ticker from filename"
            /\ UNCHANGED <<k, rows>>
       ELSE IF /\ parser = "MagicFormulaHKSE"
               /\ Magic_InLookup(extract_ticker_from_filename(fpath_name))
               /\ market_cap_raises(
                      Magic_LookupRow(extract_ticker_from_filename(fpath_name)).cap,
                      extract_ccy_from_filename(fpath_name))
       THEN /\ pc' = "raised ValueError: Missing HKD-> rate"
            /\ UNCHANGED <<k, rows>>
       ELSE IF pdf_files[k] = UndatedWorkbook
       THEN /\ pc' = "raised ValueError: No parseable date headers found"
            /\ UNCHANGED <<k, rows>>
       ELSE /\ rows' = Append(rows, Magic_Row(fpath_name, pdf_files[k]))
            /\ k' = k + 1
            /\ UNCHANGED pc
    /\ UNCHANGED <<pdf_files, output>>
    /\ Magic_Unchanged

\* after the loop: the DataFrame of the rows, its derived columns, and to_excel; the
\* output is held as the rows the workbook is built from
Magic_Write ==
    /\ parser \in {"MagicFormula", "MagicFormulaHKSE"}
    /\ pc = "next_file"
    /\ k > Len(pdf_files)
    /\ output' = rows
    /\ pc' = "done"
    /\ UNCHANGED <<pdf_files, k, rows>>
    /\ Magic_Unchanged

InitMagic ==
    /\ parser \in {"MagicFormula", "MagicFormulaHKSE"}
    /\ args \in Magic_Configs
    /\ listing \in IF args.tikr_dir THEN Magic_Listings ELSE {<<>>}
    /\ pdf_files = <<>>
    /\ earlier = <<>>
    /\ folder = {}
    /\ k = 1
    /\ pc = "start"
    /\ section = None
    /\ lines = <<>>
    /\ lineSrc = <<>>
    /\ i = 0
    /\ rows = <<>>
    /\ rowSrc = <<>>
    /\ current_post = None
    /\ current_trans = None
    /\ buffer_lines = <<>>
    /\ bufSrc = <<>>
    /\ flushed = <<>>
    /\ used = {}
    /\ all_rows = <<>>
    /\ output = None

NextMagic == Magic_Start \/ Magic_File \/ Magic_Write

SpecMagic == InitMagic /\ [][NextMagic]_vars
(***************************************************************************)
(* 08-ConvertFileNames.py and 09-RemoveDot.py: the names of pathlib and    *)
(* the rules of the two scripts.  A path is the name of an entry of FOLDER.*)
(***************************************************************************)
\* name.rfind("."), 1-based; 0 when there is no point
LastDot(name) ==
    IF \E p \in 1..Len(name) : name[p] = "."
    THEN CHOOSE p \in 1..Len(name) :
             name[p] = "." /\ \A r \in (p + 1)..Len(name) : name[r] # "."
    ELSE 0

\* PurePath.suffix and PurePath.stem: the last point counts when it is neither the
\* first nor the last character of the name
Path_suffix(name) ==
    LET Cut(d) == IF 1 < d /\ d < Len(name) THEN Slice(name, d, Len(name)) ELSE <<>>
    IN  Cut(LastDot(name))

Path_stem(name) ==
    LET Cut(d) == IF 1 < d /\ d < Len(name) THEN Slice(name, 1, d - 1) ELSE name
    IN  Cut(LastDot(name))

IsLetter(c) == IsUpper(ToUpper(c))

\* CURRENCY_AT_END_RE.search(stem) is not None: -[A-Za-z]{3}$
CURRENCY_AT_END_RE(stem) ==
    /\ Len(stem) >= 4
    /\ stem[Len(stem) - 3] = "-"
    /\ \A p \in (Len(stem) - 2)..Len(stem) : IsLetter(stem[p])

\* EXTRA_DOT_AFTER_CCY_RE.sub(r"\1.\2", old_name): (-[A-Za-z]{3})\.\.(xlsx)$ with
\* re.IGNORECASE; one of the two points goes
EXTRA_DOT_AFTER_CCY_RE_sub(old_name) ==
    IF /\ Len(old_name) >= 10
       /\ lower(Slice(old_name, Len(old_name) - 3, Len(old_name))) = <<"x","l","s","x">>
       /\ old_name[Len(old_name) - 4] = "."
       /\ old_name[Len(old_name) - 5] = "."
       /\ CURRENCY_AT_END_RE(Slice(old_name, 1, Len(old_name) - 6))
    THEN Slice(old_name, 1, Len(old_name) - 6) \o
         Slice(old_name, Len(old_name) - 4, Len(old_name))
    ELSE old_name

\* str(i)
RECURSIVE DecimalOf(_)
DecimalOf(n) ==
    LET digit == <<"0","1","2","3","4","5","6","7","8","9">>
    IN  IF n < 10 THEN <<digit[n + 1]>>
        ELSE DecimalOf(n \div 10) \o <<digit[(n % 10) + 1]>>

\* dst.with_name(f"{dst.stem} ({i}){dst.suffix}")
Numbered(dst, n) ==
    Path_stem(dst) \o <<" ", "(">> \o DecimalOf(n) \o <<")">> \o Path_suffix(dst)

\* 08-ConvertFileNames.py lines 43-55: the new name of a file, or None when the file
\* is left as it is
ConvertFileNames_new_name(name) ==
    LET Rule(stem) ==
            IF endswith(lower(stem), <<"-","h","k","d">>)
            THEN Slice(stem, 1, Len(stem) - 4) \o
                <<".","x","l","s","x">>
            ELSE IF ~CURRENCY_AT_END_RE(stem)
            THEN stem \o
                <<"-","C","N","Y",".","x","l","s","x">>
            ELSE None
    IN  Rule(Path_stem(name))

\* 09-RemoveDot.py lines 43-48
RemoveDot_new_name(name) ==
    IF EXTRA_DOT_AFTER_CCY_RE_sub(name) # name
    THEN EXTRA_DOT_AFTER_CCY_RE_sub(name) ELSE None
(***************************************************************************)
(* The runs of the two renaming scripts, and calls of safe_rename alone.   *)
(* listing is the order in which FOLDER.iterdir() yields the names, k the  *)
(* position of the for loop in it, i the counter of safe_rename, and args  *)
(* holds the folder before the run, the names that are directories, and    *)
(* DRY_RUN; for a call of safe_rename it holds src and dst as well.        *)
(***************************************************************************)
MaxNames == 3       \* entries of FOLDER

Rename_NamePool ==
    <<
                <<"A","-","H","K","D",".","x","l","s","x">>,
                <<"A",".","x","l","s","x">>,
                <<"A"," ","(","1",")",".","x","l","s","x">>,
                <<"B","-","u","s","d",".","X","L","S","X">>,
                <<"A","-","H","K","D",".",".","x","l","s","x">>,
                <<"n","o","t","e","s",".","t","x","t">> >>

\* a sub-folder of FOLDER
Rename_DirName ==
                <<"o","l","d",".","x","l","s","x">>

Rename_Names == {Rename_NamePool[n] : n \in 1..Len(Rename_NamePool)} \cup {Rename_DirName}

\* the orders in which the names of a set can be met
SetOrders(S) ==
    {l \in SeqUpTo(S, Cardinality(S)) :
        /\ Len(l) = Cardinality(S)
        /\ \A a, b \in 1..Len(l) : l[a] = l[b] => a = b}

Rename_Folders == {S \in SUBSET Rename_Names : Cardinality(S) <= MaxNames}

Rename_Scripts == {"ConvertFileNames", "RemoveDot"}

is_file(name) == name \notin args.dirs

\* the file the for loop is at, and the name safe_rename is asked for
Rename_new_name(name) ==
    IF parser = "ConvertFileNames" THEN ConvertFileNames_new_name(name)
    ELSE RemoveDot_new_name(name)

Rename_src == IF parser = "safe_rename" THEN args.src ELSE listing[k]

Rename_dst == IF parser = "safe_rename" THEN args.dst ELSE Rename_new_name(listing[k])

\* candidate after i - 1 rounds of the while loop of safe_rename
candidate == IF i = 1 THEN Rename_dst ELSE Numbered(Rename_dst, i - 1)

\* an exists() that is true of files only
exists_FilesOnly(name) == name \in folder /\ is_file(name)

\* Path.exists(): an entry of the folder, file or directory
exists(name) == name \in folder

Rename_Unchanged ==
    UNCHANGED <<parser, args, pdf_files, section, lines, lineSrc, rows, rowSrc,
                current_post, current_trans, buffer_lines, bufSrc, flushed, used,
                all_rows, output>>

\* main, lines 33-34
Rename_Start ==
    /\ parser \in Rename_Scripts
    /\ pc = "start"
    /\ pc' = IF args.exists THEN "iter" ELSE "raised FileNotFoundError: Folder not found"
    /\ UNCHANGED <<listing, earlier, folder, k, i>>
    /\ Rename_Unchanged

\* main, lines 36-55 (09-RemoveDot.py: 37-51): the next entry of the folder, up to
\* the call of safe_rename and its test of src == dst
Rename_Iter ==
    /\ parser \in Rename_Scripts
    /\ pc = "iter"
    /\ IF k > Len(listing)
       THEN pc' = "done" /\ UNCHANGED <<k, i>>
       ELSE IF \/ ~is_file(listing[k])
               \/ lower(Path_suffix(listing[k])) # <<".","x","l","s","x">>
               \/ Rename_new_name(listing[k]) = None
               \/ Rename_new_name(listing[k]) = listing[k]
       THEN k' = k + 1 /\ UNCHANGED <<pc, i>>
       ELSE pc' = "search" /\ i' = 1 /\ UNCHANGED k
    /\ UNCHANGED <<listing, earlier, folder>>
    /\ Rename_Unchanged

\* a call of safe_rename(src, dst): lines 17-21
Rename_Call ==
    /\ parser = "safe_rename"
    /\ pc = "call"
    /\ IF args.src = args.dst
       THEN pc' = "returned" /\ UNCHANGED i
       ELSE pc' = "search" /\ i' = 1
    /\ UNCHANGED <<listing, earlier, folder, k>>
    /\ Rename_Unchanged

\* safe_rename, lines 22-30: one test of the while loop, and after the loop the rename
Rename_Search ==
    /\ parser \in Rename_Scripts \cup {"safe_rename"}
    /\ pc = "search"
    /\ IF exists(candidate)
       THEN i' = i + 1 /\ UNCHANGED <<pc, k, folder>>
       ELSE /\ UNCHANGED i
            /\ IF args.DRY_RUN
               THEN /\ folder' = folder
                    /\ pc' = IF parser = "safe_rename" THEN "returned" ELSE "iter"
               ELSE IF Rename_src \notin folder
               THEN /\ folder' = folder
                    /\ pc' = "raised FileNotFoundError"
               ELSE /\ folder' = (folder \ {Rename_src}) \cup {candidate}
                    /\ pc' = IF parser = "safe_rename" THEN "returned" ELSE "iter"
            /\ k' = IF parser = "safe_rename" \/ pc' = "raised FileNotFoundError"
                    THEN k ELSE k + 1
    /\ UNCHANGED <<listing, earlier>>
    /\ Rename_Unchanged

\* 08-ConvertFileNames.py is run once more on the folder it has left
Rename_Again ==
    /\ parser = "ConvertFileNames"
    /\ pc = "done"
    /\ earlier = <<>>
    /\ ~args.DRY_RUN
    /\ earlier' = <<[run |-> "again", folder |-> folder, listing |-> listing]>>
    /\ listing' \in SetOrders(folder)
    /\ k' = 1
    /\ i' = 0
    /\ pc' = "start"
    /\ UNCHANGED folder
    /\ Rename_Unchanged

\* history: 08-ConvertFileNames.py is run on the same folder as before with the names met in
\* another order
Rename_Replay ==
    /\ parser = "ConvertFileNames"
    /\ pc = "done"
    /\ earlier = <<>>
    /\ ~args.DRY_RUN
    /\ earlier' = <<[run |-> "replay", folder |-> folder, listing |-> listing]>>
    /\ folder' = args.folder
    /\ listing' \in SetOrders(args.folder) \ {listing}
    /\ k' = 1
    /\ i' = 0
    /\ pc' = "start"
    /\ Rename_Unchanged

Rename_Args ==
    [folder : Rename_Folders, dirs : {{Rename_DirName}}, exists : {TRUE},
     DRY_RUN : BOOLEAN, src : {<<>>}, dst : {<<>>}]
      \cup [folder : {{}}, dirs : {{Rename_DirName}}, exists : {FALSE},
            DRY_RUN : BOOLEAN, src : {<<>>}, dst : {<<>>}]

\* the names asked for in the calls of safe_rename alone
safe_rename_Targets ==
    {Rename_NamePool[1], Rename_NamePool[2], Rename_NamePool[3], Rename_DirName}

\* a call of safe_rename for a file of the folder, or for a name that is not there
safe_rename_Args ==
    {a \in [folder : Rename_Folders, dirs : {{Rename_DirName}}, exists : {TRUE},
            DRY_RUN : BOOLEAN, src : Rename_Names, dst : safe_rename_Targets] :
        a.src \in a.folder \/ a.src = Rename_NamePool[6]}

InitRename ==
    /\ \/ /\ parser \in Rename_Scripts
          /\ args \in Rename_Args
          /\ listing \in SetOrders(args.folder)
          /\ pc = "start"
       \/ /\ parser = "safe_rename"
          /\ args \in safe_rename_Args
          /\ listing = <<>>
          /\ pc = "call"
    /\ folder = args.folder
    /\ earlier = <<>>
    /\ pdf_files = <<>>
    /\ k = 1
    /\ section = None
    /\ lines = <<>>
    /\ lineSrc = <<>>
    /\ i = 0
    /\ rows = <<>>
    /\ rowSrc = <<>>
    /\ current_post = None
    /\ current_trans = None
    /\ buffer_lines = <<>>
    /\ bufSrc = <<>>
    /\ flushed = <<>>
    /\ used = {}
    /\ all_rows = <<>>
    /\ output = None

NextRename ==
    \/ Rename_Start \/ Rename_Iter \/ Rename_Call \/ Rename_Search
    \/ Rename_Again \/ Rename_Replay

\* a call of safe_rename runs on: a step of its loop is not put off for ever
SpecRename == InitRename /\ [][NextRename]_vars /\ WF_vars(Rename_Search)

\* one run of a script, or one call of safe_rename
NextSafeRename == Rename_Start \/ Rename_Iter \/ Rename_Call \/ Rename_Search

SpecSafeRename == InitRename /\ [][NextSafeRename]_vars /\ WF_vars(Rename_Search)

(***************************************************************************)
(* Properties.  The documents are described here by the lines they are     *)
(* made of, not by what the scripts find in their text.                    *)
(***************************************************************************)
\* the index of the end marker line in the line table of parser p
EndId(p) == IF p = "UOB" THEN 3 ELSE 2

\* the positions of the start marker lines of a document: the header is line 1 of
\* every line table
StartsOf(doc) == {n \in 1..Len(doc) : doc[n] = 1}

\* the position of the first start marker line of a document that has one
FirstStart(doc) == CHOOSE n \in StartsOf(doc) : \A m \in StartsOf(doc) : n <= m

\* the positions of the end marker lines after the first start marker
EndsAfterStart(p, doc) == {n \in (FirstStart(doc) + 1)..Len(doc) : doc[n] = EndId(p)}

\* the file is a PDF and its text holds no header line, whole or split
NoStartMarker(p, doc) ==
    /\ doc # Unreadable
    /\ \A n \in 1..Len(doc) : doc[n] # 1 /\ ~(p = "UOB" /\ doc[n] = 2)

\* the text of the document holds a header line and no end marker line after the first
StartNoEnd(p, doc) == StartsOf(doc) # {} /\ EndsAfterStart(p, doc) = {}

\* the position in the text of a document of the first character of its line n
RECURSIVE LineOffset(_, _, _)
LineOffset(p, doc, n) ==
    IF n = 1 THEN 1
    ELSE LineOffset(p, doc, n - 1) + Len(LineTable(p)[doc[n - 1]]) + 1

\* is_redundant_line of the parser
Redundant(p, ln) ==
    IF p = "UOB" THEN UOB_is_redundant_line(ln) ELSE OCBC_is_redundant_line(ln)

\* C1: in the UOB and OCBC parsers no line of the bounded section for which
\* is_redundant_line is true is used as the start of a record or appended to a
\* record as a continuation.
C1_RedundantLinesNeverUsed ==
    parser \in {"UOB", "OCBC"} =>
        \A j \in used : ~Redundant(parser, splitlines(section)[j])

\* C1, its case: a UOB section in which a redundant line lies between two lines that
\* were used for records
C1_Witness ==
    /\ parser = "UOB"
    /\ \E a \in used, b \in used :
          \E r \in (a + 1)..(b - 1) : UOB_is_redundant_line(splitlines(section)[r])

\* C2: in the UOB, OCBC and AMEX parsers the batch loop, at a document whose text
\* holds no start marker, raises nothing, takes no line and no row from the document
\* and goes on to the next document.
C2_NoStartMarkerGivesNoRows ==
    [][(/\ parser \in {"UOB", "OCBC", "AMEX"}
        /\ pc = "next_file"
        /\ k <= Len(pdf_files)
        /\ NoStartMarker(parser, pdf_files[k]))
       => (/\ pc' = "next_file"
           /\ k' = k + 1
           /\ lines' = <<>>
           /\ rows' = <<>>
           /\ all_rows' = all_rows)]_vars

\* C2, its case: a batch whose first document holds no start marker was processed to
\* its end, and a later document of it gave rows
C2_Witness ==
    /\ parser \in {"UOB", "OCBC", "AMEX"}
    /\ pc = "done"
    /\ Len(pdf_files) >= 2
    /\ NoStartMarker(parser, pdf_files[1])
    /\ Len(pdf_files[1]) >= 2
    /\ output # <<>>

AMEX_LinesBetween(doc, a, b) ==
    LET kept == SelectSeq(SubSeq(doc, a, b), LAMBDA x : x \notin {1, 7})
    IN  [n \in 1..Len(kept) |-> AMEX_LineTable[kept[n]]]

\* the position of the last start marker line of a document that has one
LastStart(doc) == CHOOSE n \in StartsOf(doc) : \A m \in StartsOf(doc) : m <= n

\* the step of the batch loop at a document with a start marker and no end marker
\* after it: UOB, OCBC, and AMEX with one start marker, take nothing from it; AMEX
\* with several start markers enters the stitch loop
C4_OpenStep ==
    (/\ parser \in {"UOB", "OCBC", "AMEX"}
     /\ pc = "next_file"
     /\ k <= Len(pdf_files)
     /\ StartNoEnd(parser, pdf_files[k]))
    => IF parser = "AMEX" /\ Cardinality(StartsOf(pdf_files[k])) > 1
       THEN pc' = "loop" /\ k' = k
       ELSE /\ pc' = "next_file"
            /\ k' = k + 1
            /\ lines' = <<>>
            /\ rows' = <<>>
            /\ all_rows' = all_rows

\* the lines the stitch loop works on for such a document: AMEX, the lines between
\* the first and the last start marker; foreign stocks, the rest of the header line
\* and every line after it
C4_LoopLines ==
    (/\ k <= Len(pdf_files)
     /\ StartNoEnd(parser, pdf_files[k])
     /\ pc # "next_file")
    => LET doc == pdf_files[k]
       IN  /\ parser \in {"AMEX", "FS"}
           /\ parser = "AMEX" =>
                 lines = AMEX_LinesBetween(doc, FirstStart(doc) + 1, LastStart(doc) - 1)
           /\ parser = "FS" =>
                 /\ pc # "raised ValueError"
                 /\ lines = <<<<>>>> \o [n \in 1..(Len(doc) - FirstStart(doc)) |->
                                           FS_LineTable[doc[FirstStart(doc) + n]]]

UOB_CompactOnlyStart(doc) ==
    LET text == ExtractText("UOB", doc)
    IN  /\ SearchWords(text, UOB_START_MARKER_RE) = None
        /\ find(UOB_compact(text), UOB_compact(UOB_start_marker)) # 0
        /\ \E n \in 1..Len(doc) : doc[n] = 2 /\ \E m \in (n + 1)..Len(doc) : doc[m] = 3

\* C5: in the UOB parser as it runs, a document whose header is found only in the
\* text without whitespace still gets a section, and the section begins at the raw
\* position of the first character of the header.
C5_CompactedStartFound ==
    (/\ parser = "UOB"
     /\ Len(pdf_files) = 1
     /\ UOB_CompactOnlyStart(pdf_files[1])
     /\ (pc = "loop" \/ k = 2))
    => LET text == ExtractText("UOB", pdf_files[1])
           idx  == find(UOB_compact(text), UOB_compact(UOB_start_marker))
           raw  == RawIndexFromCompact(text, 1)[idx]
       IN  /\ section # None
           /\ section # <<>>
           /\ StartsAt(text, raw, section)

\* the position of the first end marker line after the first start marker
FirstEndAfterStart(p, doc) ==
    CHOOSE n \in EndsAfterStart(p, doc) : \A m \in EndsAfterStart(p, doc) : n <= m

\* C6: a section the UOB or OCBC bounder returns is the text of the document from the
\* first character of the first start marker to the last character of the first end
\* marker after it; the start lies before the end, and an end marker before the start
\* marker is not used.
C6_SectionIsSpan ==
    (parser \in {"UOB", "OCBC"} /\ pc = "loop")
    => LET doc  == pdf_files[k]
           text == ExtractText(parser, doc)
       IN  /\ StartsOf(doc) # {}
           /\ EndsAfterStart(parser, doc) # {}
           /\ LET a == LineOffset(parser, doc, FirstStart(doc))
                  b == LineOffset(parser, doc, FirstEndAfterStart(parser, doc))
                          + Len(LineTable(parser)[EndId(parser)]) - 1
              IN  /\ a < b
                  /\ section = Slice(text, a, b)

\* C6, its case: the section of a UOB document that holds an end marker before its
\* header and two after it, with a line for the stitch loop
C6_Witness ==
    /\ parser = "UOB"
    /\ pc = "loop"
    /\ pdf_files[k][1] = 3
    /\ Cardinality(EndsAfterStart("UOB", pdf_files[k])) = 2
    /\ Len(lines) >= 1

\* a row of the UOB or OCBC parser without the year of its file
NoYear(row) == [date |-> row.date, desc |-> row.desc, amount |-> row.amount]

\* the records of the UOB stitch loop so far: those handed to flush and the pending one
UOB_Records == IF current_post # None THEN Append(flushed, Pending) ELSE flushed

\* line j of the clean lines is a record-start line for the stitch loop of the parser
IsRecordStart(j) ==
    IF parser = "UOB" THEN UOB_TX_START_RE(strip(lines[j])).ok
    ELSE OCBC_TX_RE(strip(lines[j])).ok

\* UOB: every record-start line the loop has passed opened one record of its own, a
\* record begins with the dates and the remainder of its own first line, a record
\* whose first line is followed at once by a record-start line holds nothing else, and
\* a row is parse_tx_from_buffer of the record of its first line
C7_UOB ==
    LET recs == UOB_Records
    IN  /\ \A j \in 1..i :
              IsRecordStart(j) => Cardinality({f \in 1..Len(recs) : recs[f].src[1] = j}) = 1
        /\ \A f \in 1..Len(recs) :
              LET j == recs[f].src[1]
                  m == UOB_TX_START_RE(strip(lines[j]))
              IN  /\ m.ok
                  /\ recs[f].post = m.post
                  /\ recs[f].trans = m.trans
                  /\ recs[f].buf[1] = strip(m.rest)
                  /\ (j < Len(lines) /\ j < i /\ IsRecordStart(j + 1)) =>
                        recs[f].buf = <<strip(m.rest)>> /\ recs[f].src = <<j>>
        /\ \A r \in 1..Len(rows) :
              \E f \in 1..Len(flushed) :
                  /\ flushed[f].src[1] = rowSrc[r]
                  /\ <<NoYear(rows[r])>> =
                        parse_tx_from_buffer(flushed[f].post, flushed[f].trans,
                                             flushed[f].buf)

\* OCBC: every record-start line the loop has passed gave one row of its own, and the
\* row of a line that is followed at once by a record-start line is that line alone
C7_OCBC ==
    /\ \A j \in 1..Len(lines) :
          (IsRecordStart(j) /\ j <= i) =>
              Cardinality({r \in 1..Len(rows) : rowSrc[r] = j}) = 1
    /\ \A r \in 1..Len(rows) :
          LET j == rowSrc[r]
          IN  /\ IsRecordStart(j)
              /\ (j < Len(lines) /\ IsRecordStart(j + 1)) =>
                    <<NoYear(rows[r])>> = OCBC_parse_transaction_line(lines[j])

\* C7: in the UOB and OCBC stitchers a record-start line followed at once by another
\* record-start line gives two records, the first of the text of the first line only
\* and the second beginning with the text of the second line only.
C7_AdjacentStartsStaySeparate ==
    /\ parser = "UOB" => C7_UOB
    /\ parser = "OCBC" => C7_OCBC

\* C7, its case: two rows of an OCBC document whose first lines are neighbours, the
\* second of them with a continuation line
C7_Witness ==
    /\ parser = "OCBC"
    /\ pc = "done"
    /\ \E r \in 1..(Len(rows) - 1) :
          /\ rowSrc[r + 1] = rowSrc[r] + 1
          /\ OCBC_IsContinuation(lines, rowSrc[r + 1])
          /\ i > rowSrc[r + 1]

\* record f handed to flush began with a record-start line whose remainder holds text
\* and no amount at its end, and its second line is an amount alone with the suffix CR
C8_Case(f) ==
    LET e == flushed[f]
        R == e.buf[1]
    IN  /\ Len(e.buf) >= 2
        /\ R # <<>>
        /\ ~UOB_AMT_AT_END_RE(R).ok
        /\ UOB_AMT_ONLY_RE(e.buf[2]).ok
        /\ UOB_AMT_ONLY_RE(e.buf[2]).suffix # None
        /\ upper(UOB_AMT_ONLY_RE(e.buf[2]).suffix) = <<"C", "R">>

\* the row of record f handed to flush, <<>> when it gave none
UOB_RowOf(f) ==
    LET rs == {r \in 1..Len(rows) : rowSrc[r] = flushed[f].src[1]}
    IN  IF rs = {} THEN <<>> ELSE <<rows[CHOOSE r \in rs : TRUE]>>

\* the description of the example of the specification
C8_ExampleDescription ==
                <<"C","R"," ","I","N","T","E","R","E","S","T">>

\* C8 as the specification states it: the description of such a record of two lines
\* is exactly the remainder of its first line.
C8_DescriptionIsRemainder ==
    parser = "UOB" =>
        \A f \in 1..Len(flushed) :
            (C8_Case(f) /\ Len(flushed[f].buf) = 2) =>
                /\ UOB_RowOf(f) # <<>>
                /\ UOB_RowOf(f)[1].desc = flushed[f].buf[1]

\* C8: in the UOB stitcher a record whose first line has a remainder of text without
\* an amount at its end, and whose second line is an amount alone with the suffix CR,
\* gets the number without thousands separators, in parentheses, as its amount; when
\* the record has no further line its description is the remainder with every run of
\* whitespace collapsed to one space.  The lines "07 JUN 07 JUN CR INTEREST" and
\* "16.84 CR" give the amount "(16.84)" and the description "CR INTEREST".
C8_CreditOnNextLine ==
    parser = "UOB" =>
        \A f \in 1..Len(flushed) :
            /\ C8_Case(f) =>
                  /\ UOB_RowOf(f) # <<>>
                  /\ UOB_RowOf(f)[1].amount =
                        <<"(">> \o RemoveCommas(UOB_AMT_ONLY_RE(flushed[f].buf[2]).num)
                                \o <<")">>
                  /\ Len(flushed[f].buf) = 2 =>
                        UOB_RowOf(f)[1].desc = CollapseSpaces(flushed[f].buf[1])
            /\ (/\ Len(flushed[f].src) = 2
                /\ lines[flushed[f].src[1]] = UOB_LineTable[4]
                /\ lines[flushed[f].src[2]] = UOB_LineTable[5])
               => /\ UOB_RowOf(f) # <<>>
                  /\ UOB_RowOf(f)[1].amount = <<"(", "1", "6", ".", "8", "4", ")">>
                  /\ UOB_RowOf(f)[1].desc = C8_ExampleDescription

\* C8, its case: the record of the lines "07 JUN 07 JUN CR  INTEREST", with two
\* spaces, and "1,016.84 CR" was flushed and gave a row
C8_Witness ==
    /\ parser = "UOB"
    /\ \E f \in 1..Len(flushed) :
          /\ C8_Case(f)
          /\ flushed[f].buf[1] # CollapseSpaces(flushed[f].buf[1])
          /\ lines[flushed[f].src[2]] = UOB_LineTable[13]
          /\ UOB_RowOf(f) # <<>>

\* the continuation lines of a buffer that are an amount alone
C9_BareAmounts(buf) == {n \in 2..Len(buf) : UOB_AMT_ONLY_RE(strip(buf[n])).ok}

\* the continuation lines of a buffer, without line a
C9_OtherLines(buf, a) ==
    LET idx == SelectSeq([n \in 1..(Len(buf) - 1) |-> n + 1], LAMBDA n : n # a)
    IN  [n \in 1..Len(idx) |-> strip(buf[idx[n]])]

\* the description made of the given parts
C9_Description(parts) == strip(CollapseSpaces(join(<<" ">>, parts)))

\* C9: in UOB parse_tx_from_buffer the first amount wins.  When the first fragment
\* gives the amount, every continuation line, amounts alone included, goes to the
\* description; when it gives none, the first continuation line that is an amount
\* alone is the amount and is left out of the description, and every other
\* continuation line, later amounts alone included, goes to the description.
C9_FirstAmountWins ==
    parser = "UOB" =>
        \A f \in 1..Len(flushed) :
            LET buf   == flushed[f].buf
                first == UOB_FirstLine(strip(buf[1]))
                bare  == C9_BareAmounts(buf)
                row   == UOB_RowOf(f)
            IN  IF first.amount # None
                THEN /\ row # <<>>
                     /\ row[1].amount = first.amount
                     /\ row[1].desc = C9_Description(first.desc_parts \o C9_OtherLines(buf, 0))
                ELSE IF bare # {}
                THEN LET a == CHOOSE n \in bare : \A m \in bare : n <= m
                         m_only == UOB_AMT_ONLY_RE(strip(buf[a]))
                     IN  /\ row # <<>>
                         /\ row[1].amount = normalize_amount(m_only.num, m_only.suffix)
                         /\ row[1].desc =
                               C9_Description(first.desc_parts \o C9_OtherLines(buf, a))
                ELSE row = <<>>

\* C9, its case: a record without an amount in its first fragment, with a text line,
\* an amount alone and a later amount alone, gave a row
C9_Witness ==
    /\ parser = "UOB"
    /\ \E f \in 1..Len(flushed) :
          /\ UOB_FirstLine(strip(flushed[f].buf[1])).amount = None
          /\ Cardinality(C9_BareAmounts(flushed[f].buf)) >= 2
          /\ 2 \notin C9_BareAmounts(flushed[f].buf)
          /\ UOB_RowOf(f) # <<>>

\* line n of the clean lines of the AMEX stitcher is "CR" alone
AMEX_IsCR(n) == n >= 1 /\ n <= Len(lines) /\ strip(lines[n]) = <<"C", "R">>

\* the credit form of a plain amount
C10_Credit(a) == <<"(">> \o a \o <<")">>

\* one iteration of the AMEX stitch loop.  At a line that is "CR" alone no row is
\* added, the rows before the last are unchanged, and the last row has its plain
\* amount turned into the credit form (an amount in credit form stays).  At any other
\* line the rows are unchanged or one row is added after them; a "CR" that follows the
\* line of the new row is taken with it, and the plain amount of that line appears in
\* credit form.
C10_Step ==
    (parser = "AMEX" /\ pc = "loop" /\ i < Len(lines))
    => LET n == Len(rows)
       IN  IF AMEX_IsCR(i + 1)
           THEN /\ i' = i + 1
                /\ Len(rows') = n
                /\ rowSrc' = rowSrc
                /\ \A r \in 1..(n - 1) : rows'[r] = rows[r]
                /\ n >= 1 =>
                      rows'[n] = IF Parenthesized(rows[n].amount) THEN rows[n]
                                 ELSE [rows[n] EXCEPT !.amount = C10_Credit(rows[n].amount)]
           ELSE \/ rows' = rows /\ rowSrc' = rowSrc /\ i' = i + 1
                \/ /\ Len(rows') = n + 1
                   /\ SubSeq(rows', 1, n) = rows
                   /\ rowSrc' = Append(rowSrc, i + 1)
                   /\ i' = IF AMEX_IsCR(i + 2) THEN i + 2 ELSE i + 1
                   /\ LET m == AMEX_TX_RE(strip(lines[i + 1]))
                      IN  /\ m.ok
                          /\ (~m.cr) =>
                                rows'[n + 1].amount =
                                    IF AMEX_IsCR(i + 2) THEN C10_Credit(RemoveCommas(m.amt))
                                    ELSE RemoveCommas(m.amt)

\* no row of the AMEX stitcher began with a line that is "CR" alone
C10_NoRowFromCR ==
    parser = "AMEX" =>
        /\ Len(rowSrc) = Len(rows)
        /\ \A r \in 1..Len(rows) : ~AMEX_IsCR(rowSrc[r])

\* C10: in the AMEX stitcher a line that is exactly "CR" starts no record and is no
\* row; it turns the plain amount of the row emitted last into the credit form and
\* leaves the rows before it unchanged.
C10_StandaloneCR == [](C10_NoRowFromCR) /\ [][C10_Step]_vars

\* C10, its case: a "CR" line that does not follow the line of a row has just turned
\* the plain amount of the second of two rows into a credit, the first row still plain
C10_Witness ==
    /\ parser = "AMEX"
    /\ pc = "loop"
    /\ AMEX_IsCR(i)
    /\ Len(rows) = 2
    /\ rowSrc[2] < i - 1
    /\ ~AMEX_TX_RE(strip(lines[rowSrc[2]])).cr
    /\ Parenthesized(rows[2].amount)
    /\ ~Parenthesized(rows[1].amount)
(***************************************************************************)
(* Amounts.                                                                *)
(***************************************************************************)
\* the call of an amount normalizer has returned
AmountReturned == pc = "returned" /\ parser \in {"normalize_amount", "format_amount_for_excel"}

\* the amount of the call is marked credit: suffix CR for UOB, is_credit for AMEX
MarkedCredit ==
    IF parser = "normalize_amount"
    THEN args[2] # None /\ upper(args[2]) = <<"C","R">>
    ELSE args[2]

\* the amount of the call carries no marker
NoMarker == IF parser = "normalize_amount" THEN args[2] = None ELSE ~args[2]

\* the characters of s that are digits or the point, in their order
NumberChars(s) == SelectSeq(s, LAMBDA c : c \in Digits \/ c = ".")

\* C11: normalize_amount and format_amount_for_excel return, for a numeric token with
\* thousands separators, the digits and the point of the token in their order and no
\* separator, between "(" and ")" when the amount is marked credit and with nothing
\* added when it carries no marker.
C11_AmountNormalized ==
    AmountReturned =>
        /\ MarkedCredit => output = <<"(">> \o NumberChars(args[1]) \o <<")">>
        /\ NoMarker => output = NumberChars(args[1])

\* C11, its case: normalize_amount("1,234.56", "CR") has returned "(1234.56)"
C11_Witness ==
    /\ pc = "returned"
    /\ parser = "normalize_amount"
    /\ args = << <<"1",",","2","3","4",".","5","6">>, <<"C","R">> >>
    /\ output = <<"(","1","2","3","4",".","5","6",")">>

\* the text holds a thousands separator
HasSeparator(a) == \E p \in 1..Len(a) : a[p] = ","

\* the rows a run holds: those of the current document and those of the batch
RowsHeld == {rows[r] : r \in 1..Len(rows)} \cup {all_rows[r] : r \in 1..Len(all_rows)}

\* the lines of the section of page p of the document of a CDP or SRS run
PageLines(p) ==
    StrippedLines(SectionOfPage(ExtractText(parser, pages[p]),
                                IF parser = "CDP" THEN CDP_start_marker ELSE SRS_start_marker,
                                IF parser = "CDP" THEN CDP_end_marker ELSE SRS_end_marker))

\* the amount token the transaction pattern of the parser captures in the line that
\* started row r of the current document
AmountToken(r) ==
    CASE parser = "OCBC" -> OCBC_TX_RE(lines[rowSrc[r]]).amt
      [] parser = "FS"   -> FS_TX_RE(lines[rowSrc[r]]).amount_str
      [] parser = "CDP"  -> CDP_TX_RE(PageLines(rowSrc[r][1])[rowSrc[r][2]]).amount_str
      [] parser = "SRS"  -> SRS_TX_RE(PageLines(rowSrc[r][1])[rowSrc[r][2]]).amount_str

\* C12 as stated: no row of any of the six parsers holds a thousands separator in its
\* amount
C12_NoSeparatorInAnyRow == \A row \in RowsHeld : ~HasSeparator(row.amount)

\* C12: the rows of the UOB and AMEX parsers hold no thousands separator in their
\* amount; the rows of the OCBC, CDP, SRS and foreign-stocks parsers hold the amount
\* token of their line as the pattern captured it, separators included
C12_SeparatorsByParser ==
    /\ parser \in {"UOB", "AMEX"} => \A row \in RowsHeld : ~HasSeparator(row.amount)
    /\ parser \in {"OCBC", "FS", "CDP", "SRS"} =>
          /\ Len(rowSrc) = Len(rows)
          /\ \A r \in 1..Len(rows) : rows[r].amount = AmountToken(r)
          /\ (parser # "OCBC" /\ pc = "done") =>
                \A r \in 1..Len(rows) : output[r].amount = rows[r].amount

\* C12, its case: the OCBC batch has written a row whose amount holds a separator
C12_Witness ==
    /\ parser = "OCBC"
    /\ pc = "done"
    /\ \E r \in 1..Len(output) : HasSeparator(output[r].amount)

(***************************************************************************)
(* Dates.                                                                  *)
(***************************************************************************)
\* the month names of the display forms
MonthNames ==
    <<
                <<"J","a","n">>,
                <<"F","e","b">>,
                <<"M","a","r">>,
                <<"A","p","r">>,
                <<"M","a","y">>,
                <<"J","u","n">>,
                <<"J","u","l">>,
                <<"A","u","g">>,
                <<"S","e","p">>,
                <<"O","c","t">>,
                <<"N","o","v">>,
                <<"D","e","c">> >>

\* the number 1..12 of the month whose upper-case name is mon
MonthOfName(mon) == CHOOSE n \in 1..12 : upper(MonthNames[n]) = mon

InvalidDateLine(n) ==
    CASE parser = "AMEX" ->
            LET Bad(m) == m.ok /\ AMEX_strptime_raises(m.date)
            IN  Bad(AMEX_TX_RE(strip(lines[n])))
      [] parser = "OCBC" ->
            LET Bad(m) == m.ok /\ TwoDigits(m.date, 4) \notin 1..12
            IN  Bad(OCBC_TX_RE(lines[n]))
      [] OTHER -> FALSE

\* the date and year a row of the AMEX or OCBC parser carries when the date token of
\* its line is no date: AMEX the token itself with an empty year, OCBC the day, a space
\* and the two digits of the month
RawDateKept(r) ==
    CASE parser = "AMEX" ->
            LET Kept(m) == rows[r].date = m.date /\ rows[r].year = <<>>
            IN  Kept(AMEX_TX_RE(strip(lines[rowSrc[r]])))
      [] parser = "OCBC" ->
            LET Kept(m) == rows[r].date = Slice(m.date, 1, 2) \o <<" ">> \o Slice(m.date, 4, 5)
            IN  Kept(OCBC_TX_RE(lines[rowSrc[r]]))

\* the pages of an SRS document whose lines went to parse_transaction_line
SRS_PagesRead ==
    {p \in 1..Len(pages) : p < k /\ Contains(ExtractText("SRS", pages[p]), SRS_start_marker)}

\* line n of page p matches the SRS pattern with letters that are no month
SRS_UnknownMonth(p, n) ==
    LET Bad(m) == m.ok /\ \A q \in 1..12 : AMEX_MONTHS[q] # Slice(m.date_raw, 3, 5)
    IN  Bad(SRS_TX_RE(PageLines(p)[n]))

Trimmed(d) == d = <<>> \/ (~IsSpace(d[1]) /\ ~IsSpace(d[Len(d)]))

\* no two whitespace characters side by side
NoSpaceRun(d) == \A p \in 1..(Len(d) - 1) : ~(IsSpace(d[p]) /\ IsSpace(d[p + 1]))

DescOfLine(r) ==
    IF parser = "AMEX" THEN strip(AMEX_TX_RE(strip(lines[rowSrc[r]])).desc)
    ELSE strip(OCBC_TX_RE(lines[rowSrc[r]]).desc)

StitchRecord(j) ==
    IF parser = "OCBC" THEN OCBC_parse_transaction_line(lines[j])
    ELSE IF FS_date_re(lines[j]) THEN FS_parse_transaction_line(lines[j])
    ELSE <<>>

\* the lines after line n up to the next record-start line or the end of the section;
\* the OCBC lines hold no noise (the cleaning removed it), of the foreign-stocks lines
\* the empty ones are left out
RECURSIVE ContinuationRun(_)
ContinuationRun(n) ==
    IF n + 1 > Len(lines) \/ StitchRecord(n + 1) # <<>> THEN <<>>
    ELSE (IF lines[n + 1] = <<>> THEN <<>> ELSE <<lines[n + 1]>>) \o ContinuationRun(n + 1)

\* the line after line n is one the stitch loop appends: for OCBC a line that is no
\* transaction line and no noise, for the foreign-stocks script a line that is not
\* empty, does not begin with a date and has at most 40 characters
LookAhead(n) ==
    /\ n + 1 <= Len(lines)
    /\ IF parser = "OCBC"
       THEN ~OCBC_TX_RE(lines[n + 1]).ok /\ ~OCBC_is_redundant_line(lines[n + 1])
       ELSE lines[n + 1] # <<>> /\ ~FS_date_re(lines[n + 1]) /\ Len(lines[n + 1]) <= 40

BatchParsers == {"UOB", "OCBC", "AMEX"}

\* the files of the run in the order the batch loop takes them
Processed == sorted(listing)

\* the position in Processed of the file whose rows carry the folder name year
FileOfYear(year) ==
    CHOOSE n \in 1..Len(Processed) : get_subfolder_year(Processed[n].path) = year

\* the batch loop takes every file of the listing once, in ascending order of the paths
C17_AscendingPaths ==
    /\ Len(Processed) = Len(listing)
    /\ \A f \in 1..Len(listing) : \E n \in 1..Len(Processed) : Processed[n] = listing[f]
    /\ \A a, b \in 1..Len(Processed) : a < b => PathLess(Processed[a].path, Processed[b].path)
    /\ pdf_files = [n \in 1..Len(Processed) |-> Processed[n].doc]
    /\ k \in 1..(Len(pdf_files) + 1)

\* the rows of a document stand in the order of their record-start lines, and in the
\* rows of the batch no row of a later file stands before a row of an earlier one (the
\* UOB and OCBC rows carry the folder of their file)
C17_RowsInOrder ==
    /\ \A a, b \in 1..Len(rows) : a < b => rowSrc[a] < rowSrc[b]
    /\ parser \in {"UOB", "OCBC"} =>
          \A a, b \in 1..Len(all_rows) :
              a < b => FileOfYear(all_rows[a].year) <= FileOfYear(all_rows[b].year)
    /\ pc = "done" => output = all_rows

\* the loop goes from file k to file k + 1 only, and the rows of the batch change only
\* by the rows of the file just read being put at their end
C17_Step ==
    parser \in BatchParsers =>
        /\ k' = k \/ k' = k + 1
        /\ all_rows' # all_rows => (k' = k + 1 /\ all_rows' = all_rows \o rows')

\* C17: a batch parser reads its files one at a time in ascending order of their paths;
\* the output is the rows of the first file, then those of the second, and so on, the
\* rows of a file in the order of their record-start lines.
C17_BatchOrder ==
    /\ [](parser \in BatchParsers => C17_AscendingPaths /\ C17_RowsInOrder)
    /\ [][C17_Step]_vars

\* C17, its case: rglob yielded b.pdf before 2023/a.pdf, both files gave a row, and the
\* output holds the row of 2023/a.pdf first
C17_Witness ==
    /\ parser = "UOB"
    /\ pc = "done"
    /\ Len(listing) = 2
    /\ PathLess(listing[2].path, listing[1].path)
    /\ Len(output) = 2
    /\ output[1].year = listing[2].path[1]
    /\ output[2].year = base_dir_name

\* the batch loop is at a file pdfplumber cannot open
AtUnreadable ==
    /\ parser \in BatchParsers
    /\ pc = "next_file"
    /\ k <= Len(pdf_files)
    /\ pdf_files[k] = Unreadable

\* C18: in the batch parsers a failure while one document is processed, the failure of
\* its text extraction included, is caught and the document skipped: the loop goes on to
\* the next document with the rows of the batch as they were, and once it has begun a
\* run never ends in an exception.
C18_FailureIsSkipped ==
    /\ [][AtUnreadable => (pc' = "next_file" /\ k' = k + 1 /\ all_rows' = all_rows)]_vars
    /\ [](parser \in BatchParsers => pc \in {"next_file", "loop", "done"})

\* a single-document script has read its document, has bounded a section, and no line
\* of it gave a row
ZeroRowsAtEnd ==
    /\ rows = <<>>
    /\ section # None
    /\ \/ parser = "FS" /\ pc = "loop" /\ i >= Len(lines)
       \/ parser \in {"CDP", "SRS"} /\ pc = "next_page" /\ k > Len(pages)

\* a batch parser returns from a document with a bounded section and no row
ZeroRowsAtReturn ==
    /\ parser \in BatchParsers
    /\ pc = "loop"
    /\ pc' = "next_file"
    /\ rows' = <<>>

\* C19: a document whose section is bounded but in which no line parses into a row is
\* a normal outcome in every parser: a single-document script writes its output with
\* zero rows and ends without an exception, and a batch parser goes on to the next
\* document with the rows of the batch as they were.
C19_ZeroRowsIsNormal ==
    /\ [][ZeroRowsAtEnd => (pc' = "done" /\ output' = <<>>)]_vars
    /\ [][ZeroRowsAtReturn => (k' = k + 1 /\ all_rows' = all_rows)]_vars


\* C20: a second run of a batch script over the same files, yielded by the directory
\* walk in any order, ends as the first run ended and writes the same rows with the
\* same field values in the same order.
C20_SameOutcome ==
    (earlier # <<>> /\ Ended) => (pc = earlier[1].pc /\ output = earlier[1].output)

C20_Witness ==
    /\ earlier # <<>>
    /\ pc = "done"
    /\ earlier[1].listing # listing
    /\ earlier[1].listing # sorted(earlier[1].listing)
    /\ Len(output) >= 2
    /\ \E m, n \in 1..Len(output) : output[m] # output[n]
    /\ output = earlier[1].output

(***************************************************************************)
(* C21: an AMEX document with two section headers.                         *)
(***************************************************************************)
\* the positions of text where the section header matches
AMEX_HeaderStarts(text) ==
    {p \in 1..Len(text) : MatchWords(text, p, AMEX_start_marker_re, 1) # 0}

\* the positions of text where the end marker stands
AMEX_EndStarts(text) == {p \in 1..Len(text) : StartsAtI(text, p, AMEX_end_marker)}

SetMin(S) == CHOOSE x \in S : \A y \in S : x <= y

SetMax(S) == CHOOSE x \in S : \A y \in S : y <= x

\* the header occurs twice and the end marker stands after the second header only
TwoHeadersThenEnd(text) ==
    /\ Cardinality(AMEX_HeaderStarts(text)) = 2
    /\ AMEX_EndStarts(text) # {}
    /\ \A e \in AMEX_EndStarts(text) : e > SetMax(AMEX_HeaderStarts(text))

\* the loop over the lines of an AMEX document is at its end
AMEX_AtReturn == parser = "AMEX" /\ pc = "loop" /\ i >= Len(lines)

\* C21: for an AMEX document whose text holds the section header twice and the end
\* marker after the second header, extract_marker_segments returns exactly two
\* segments that do not overlap, the text from the first header to the second and the
\* text from the second header to the end marker, and the number of rows of the
\* document is the sum of the numbers of rows each segment gives when it is stitched
\* alone.
C21_TwoSegments ==
    (AMEX_AtReturn /\ TwoHeadersThenEnd(all_text)) =>
        LET h1 == SetMin(AMEX_HeaderStarts(all_text))
            h2 == SetMax(AMEX_HeaderStarts(all_text))
            e  == SetMin(AMEX_EndStarts(all_text))
        IN  /\ extract_marker_segments(all_text) = section
            /\ Len(section) = 2
            /\ MatchWords(all_text, h1, AMEX_start_marker_re, 1) <= h2
            /\ section[1] = Slice(all_text, MatchWords(all_text, h1, AMEX_start_marker_re, 1),
                                  h2 - 1)
            /\ section[2] = Slice(all_text, MatchWords(all_text, h2, AMEX_start_marker_re, 1),
                                  e - 1)
            /\ rows = AMEX_RowsOfSegments(section)
            /\ Len(rows) = Len(AMEX_RowsOfSegments(<<section[1]>>))
                             + Len(AMEX_RowsOfSegments(<<section[2]>>))

\* both segments give a row, and the second begins with the "CR" line of the last
\* transaction of the first
C21_Witness ==
    /\ AMEX_AtReturn
    /\ TwoHeadersThenEnd(all_text)
    /\ Len(rows) >= 2
    /\ AMEX_RowsOfSegments(<<section[1]>>) # <<>>
    /\ AMEX_RowsOfSegments(<<section[2]>>) # <<>>
    /\ rows # AMEX_RowsOfSegments(<<section[1]>>) \o AMEX_RowsOfSegments(<<section[2]>>)

(***************************************************************************)
(* C22: the Year tag of the UOB and OCBC rows.                             *)
(***************************************************************************)
\* the name of the first-level subfolder of the base directory that holds the file at
\* position n of the batch, the name of the base directory for a file directly in it
FolderOfFile(n) ==
    IF Len(Processed[n].path) >= 2 THEN Processed[n].path[1]
    ELSE IF parser = "UOB" THEN <<"U","O","B">> ELSE <<"O","C","B","C">>

\* C22: in the UOB and OCBC parsers every row extracted from a document carries as
\* its Year the name of the first-level subfolder of the base directory that holds
\* the document (the name of the base directory for a document directly in it),
\* whatever dates the text of the document holds; the rows of the documents read
\* before carry the folder of one of those documents.
C22_YearIsFolder ==
    (parser \in {"UOB", "OCBC"} /\ pc \in {"loop", "next_file", "done"}) =>
        /\ pc = "loop" => \A n \in 1..Len(rows) : rows[n].year = FolderOfFile(k)
        /\ \A n \in 1..Len(all_rows) :
              \E f \in 1..(k - 1) : f <= Len(Processed) /\ all_rows[n].year = FolderOfFile(f)

\* a document gave two rows with different dates, and two documents in different
\* folders gave rows with the same date, description and amount and different Years
C22_Witness ==
    /\ parser \in {"UOB", "OCBC"}
    /\ pc = "done"
    /\ \E m, n \in 1..Len(output) :
          /\ NoYear(output[m]) = NoYear(output[n])
          /\ output[m].year # output[n].year
          /\ output[m].year = <<"2","0","2","3">>
          /\ output[n].year \in {<<"U","O","B">>, <<"O","C","B","C">>}

(***************************************************************************)
(* C23: the configuration errors of the Magic Formula scripts.             *)
(***************************************************************************)
\* the ends of a run by a configuration error: a path or a column is missing
Magic_PathOrColumnErrors ==
    { "raised FileNotFoundError: TIKR folder not found",
      "raised FileNotFoundError: MarketCap file not found",
      "raised ValueError: columns Ticker and Company Name not found",
      "raised ValueError: column Mkt Cap not found" }

\* and the currency of a file has no rate in HKD_TO_CCY_RATES
Magic_ConfigurationErrors ==
    Magic_PathOrColumnErrors \cup {"raised ValueError: Missing HKD-> rate"}

\* C23: every configuration error of a run (source directory missing, market cap file
\* missing, a required column missing, no rate for the currency of a file) is raised
\* before the first document is processed: a run that ends by a configuration error
\* has processed no document.
C23_ConfigurationErrorsAtStartup ==
    (parser \in {"MagicFormula", "MagicFormulaHKSE"} /\ pc \in Magic_ConfigurationErrors)
        => (rows = <<>> /\ k = 1)

(***************************************************************************)
(* C24: the UOB stitch loop as a machine of two states.                    *)
(***************************************************************************)
\* the state of the machine: Idle while no record is open, Accumulating while one is
UOB_Mode == IF current_post = None THEN "Idle" ELSE "Accumulating"

UOB_ModeNext == IF current_post' = None THEN "Idle" ELSE "Accumulating"

\* s is t, or t with one more row at its end
OneMoreAtMost(t, s) ==
    /\ Len(s) \in {Len(t), Len(t) + 1}
    /\ SubSeq(s, 1, Len(t)) = t

\* the open record is flushed: it joins the flushed records, and the rows grow by the
\* row parse_tx_from_buffer makes of it, if it makes one
UOB_FlushesOpen ==
    /\ flushed' = Append(flushed, Pending)
    /\ OneMoreAtMost(rows, rows')
    /\ rows' # rows =>
          /\ <<NoYear(rows'[Len(rows')])>> =
                 parse_tx_from_buffer(current_post, current_trans, buffer_lines)
          /\ rowSrc' = Append(rowSrc, bufSrc[1])
    /\ rows' = rows =>
          /\ parse_tx_from_buffer(current_post, current_trans, buffer_lines) = <<>>
          /\ rowSrc' = rowSrc

\* one line of the stream is read
UOB_LineTransition ==
    LET Trans(ln, m) ==
            IF m.ok
            THEN /\ UOB_ModeNext = "Accumulating"
                 /\ current_post' = m.post
                 /\ current_trans' = m.trans
                 /\ buffer_lines' = <<strip(m.rest)>>
                 /\ bufSrc' = <<i + 1>>
                 /\ IF UOB_Mode = "Accumulating" THEN UOB_FlushesOpen
                    ELSE UNCHANGED <<flushed, rows, rowSrc>>
            ELSE IF UOB_Mode = "Accumulating"
            THEN /\ UOB_ModeNext = "Accumulating"
                 /\ buffer_lines' = Append(buffer_lines, ln)
                 /\ UNCHANGED <<current_post, current_trans, flushed, rows, rowSrc>>
            ELSE /\ UOB_ModeNext = "Idle"
                 /\ UNCHANGED <<buffer_lines, bufSrc, flushed, rows, rowSrc, used>>
    IN  Trans(strip(lines[i + 1]), UOB_TX_START_RE(strip(lines[i + 1])))

\* the end of the stream
UOB_EndTransition ==
    /\ UOB_ModeNext = "Idle"
    /\ buffer_lines' = <<>>
    /\ IF UOB_Mode = "Accumulating" THEN UOB_FlushesOpen
       ELSE UNCHANGED <<flushed, rows, rowSrc>>

C24_Step ==
    (parser = "UOB" /\ pc = "loop") =>
        /\ i < Len(lines) => (i' = i + 1 /\ pc' = "loop" /\ UOB_LineTransition)
        /\ i >= Len(lines) => (pc' = "next_file" /\ UOB_EndTransition)

\* every record-start line read so far opened one record, every opened record but the
\* open one has been flushed once, a record gave one row at most, and the rows stand in
\* the order of their record-start lines
C24_Records ==
    (parser = "UOB" /\ pc \in {"loop", "next_file", "done"} /\ lines # <<>>) =>
        /\ UOB_Mode = "Idle" <=> (buffer_lines = <<>>)
        /\ \A j \in 1..i :
              IsRecordStart(j) <=>
                  Cardinality({f \in 1..Len(UOB_Records) : UOB_Records[f].src[1] = j}) = 1
        /\ \A f, g \in 1..Len(flushed) : f < g => flushed[f].src[1] < flushed[g].src[1]
        /\ UOB_Mode = "Accumulating" =>
              \A f \in 1..Len(flushed) : flushed[f].src[1] < bufSrc[1]
        /\ \A f \in 1..Len(UOB_Records) :
              /\ IsRecordStart(UOB_Records[f].src[1])
              /\ \A n \in 2..Len(UOB_Records[f].src) :
                    /\ UOB_Records[f].src[n] = UOB_Records[f].src[1] + n - 1
                    /\ ~IsRecordStart(UOB_Records[f].src[n])
                    /\ UOB_Records[f].buf[n] = strip(lines[UOB_Records[f].src[n]])
        /\ Len(rowSrc) = Len(rows)
        /\ \A r \in 1..Len(rows) : \E f \in 1..Len(flushed) : flushed[f].src[1] = rowSrc[r]
        /\ \A r, s \in 1..Len(rows) : r < s => rowSrc[r] < rowSrc[s]
        /\ (pc # "loop") => (UOB_Mode = "Idle" /\ Len(flushed) =
                                Cardinality({j \in 1..Len(lines) : IsRecordStart(j)}))

\* C24: the UOB stitch loop refines the machine of the states Idle and Accumulating.
\* Lines before the first record-start line are dropped; a record-start line flushes
\* the open record, if there is one, and opens a record with the remainder of the
\* line; any other line is appended to the open record; the end of the stream flushes
\* the open record.  Every opened record is flushed exactly once and gives one row at
\* most, and the rows stand in the order of their record-start lines.
C24_TwoStateMachine == [][C24_Step]_vars /\ []C24_Records

\* a finished document with lines before the first record, a record of several lines,
\* a record that gave no row and two that gave one
C24_Witness ==
    /\ parser = "UOB"
    /\ pc = "next_file"
    /\ lines # <<>>
    /\ ~IsRecordStart(1)
    /\ Len(flushed) >= 3
    /\ Len(rows) = 2
    /\ \E f \in 1..Len(flushed) : Len(flushed[f].buf) >= 2

\* no amount is ever found in a record: none at the end of its first fragment with text
\* before it, and no continuation line that is an amount alone
UOB_AmountInFirst(buf) ==
    LET Found(first, m) == m.ok /\ strip(Slice(first, 1, m.start - 1)) # <<>>
    IN  Found(strip(buf[1]), UOB_AMT_AT_END_RE(strip(buf[1])))

UOB_AmountOnlyLine(buf) ==
    \E n \in 2..Len(buf) :
        /\ strip(buf[n]) # <<>>
        /\ ~UOB_is_redundant_line(strip(buf[n]))
        /\ UOB_AMT_ONLY_RE(strip(buf[n])).ok

UOB_NoAmountFound(buf) == ~UOB_AmountInFirst(buf) /\ ~UOB_AmountOnlyLine(buf)

\* a flush of a record without an amount leaves the rows as they are
C25_Flush ==
    (/\ parser = "UOB"
     /\ pc = "loop"
     /\ Len(flushed') = Len(flushed) + 1
     /\ UOB_NoAmountFound(flushed'[Len(flushed')].buf)) =>
        /\ rows' = rows
        /\ rowSrc' = rowSrc
        /\ pc' \in {"loop", "next_file"}

\* a flushed record gave a row exactly when an amount was found in it, whatever was
\* discarded before it
C25_Emitted ==
    (parser = "UOB" /\ pc \in {"loop", "next_file"} /\ lines # <<>>) =>
        \A f \in 1..Len(flushed) :
            UOB_NoAmountFound(flushed[f].buf) <=>
                ~\E r \in 1..Len(rows) : rowSrc[r] = flushed[f].src[1]

\* C25: a pending record of the UOB stitcher in which no amount is ever found is
\* discarded at flush: it adds no row, the rows collected so far are unchanged, and the
\* records that follow it are still stitched and give their rows.
C25_NoAmountDiscarded == [][C25_Flush]_vars /\ []C25_Emitted

\* a finished document in which a record without an amount stands between two records
\* that gave a row
C25_Witness ==
    /\ parser = "UOB"
    /\ pc = "next_file"
    /\ lines # <<>>
    /\ \E e, f, g \in 1..Len(flushed) :
          /\ e < f /\ f < g
          /\ UOB_NoAmountFound(flushed[f].buf)
          /\ \E r, s \in 1..Len(rows) :
                /\ rowSrc[r] = flushed[e].src[1]
                /\ rowSrc[s] = flushed[g].src[1]
                /\ s = r + 1

\* the continuation lines of a record that are an amount alone
UOB_AmountOnlyLines(buf) ==
    {n \in 2..Len(buf) : /\ strip(buf[n]) # <<>>
                         /\ ~UOB_is_redundant_line(strip(buf[n]))
                         /\ UOB_AMT_ONLY_RE(strip(buf[n])).ok}

\* the amount the first of them gives
UOB_FirstAmountOnly(buf) ==
    LET Amount(m) == normalize_amount(m.num, m.suffix)
    IN  Amount(UOB_AMT_ONLY_RE(strip(buf[SetMin(UOB_AmountOnlyLines(buf))])))

\* the flushed records whose first fragment is an amount token and nothing else
UOB_TokenOnlyRecords ==
    {f \in 1..Len(flushed) : UOB_AMT_ONLY_RE(strip(flushed[f].buf[1])).ok}

\* the rows of a flushed record
UOB_RowsOf(f) == {r \in 1..Len(rows) : rowSrc[r] = flushed[f].src[1]}

\* C26: when the remainder of a record-start line is an amount token alone, the token
\* is not the amount of the record: it is kept as the beginning of the description, the
\* amount is the one of the first later continuation line that is an amount alone, and
\* without such a line the record is discarded.
C26_LoneTokenIsDescription ==
    (parser = "UOB" /\ pc \in {"loop", "next_file"} /\ lines # <<>>) =>
        \A f \in UOB_TokenOnlyRecords :
            /\ UOB_AmountOnlyLines(flushed[f].buf) = {} => UOB_RowsOf(f) = {}
            /\ UOB_AmountOnlyLines(flushed[f].buf) # {} =>
                  /\ Cardinality(UOB_RowsOf(f)) = 1
                  /\ \A r \in UOB_RowsOf(f) :
                        /\ rows[r].amount = UOB_FirstAmountOnly(flushed[f].buf)
                        /\ startswith(rows[r].desc, strip(flushed[f].buf[1]))

\* a record that began with "7.00" alone, got another amount from a later line and
\* kept "7.00" as its description
C26_Witness ==
    /\ parser = "UOB"
    /\ pc = "next_file"
    /\ lines # <<>>
    /\ \E f \in UOB_TokenOnlyRecords :
          /\ UOB_AmountOnlyLines(flushed[f].buf) # {}
          /\ \E r \in UOB_RowsOf(f) :
                /\ rows[r].amount # strip(flushed[f].buf[1])
                /\ rows[r].desc = strip(flushed[f].buf[1])

\* digits, a point and two digits
AMEX_PlainNumeric(a) ==
    /\ Len(a) >= 4
    /\ a[Len(a) - 2] = "."
    /\ \A q \in 1..Len(a) : q # Len(a) - 2 => DigitAt(a, q)

AMEX_InParentheses(a) ==
    /\ Len(a) >= 2
    /\ a[1] = "(" /\ a[Len(a)] = ")"
    /\ AMEX_PlainNumeric(Slice(a, 2, Len(a) - 1))

\* C27: in every row of the AMEX parser Amount Captured is a plain numeric string or
\* that string in exactly one pair of parentheses, also for a transaction line with the
\* suffix CR on the line itself that is followed by a line "CR".
C27_OnePairOfParentheses ==
    parser = "AMEX" =>
        \A r \in 1..Len(rows) :
            AMEX_PlainNumeric(rows[r].amount) \/ AMEX_InParentheses(rows[r].amount)

\* what the rows do hold: at most two pairs of parentheses, and two only for a line
\* with the suffix CR that the look-ahead of line 187 made a credit once more
AMEX_AtMostTwoPairs ==
    parser = "AMEX" =>
        \A r \in 1..Len(rows) :
            \/ AMEX_PlainNumeric(rows[r].amount)
            \/ AMEX_InParentheses(rows[r].amount)
            \/ /\ Len(rows[r].amount) >= 2
               /\ rows[r].amount[1] = "(" /\ rows[r].amount[Len(rows[r].amount)] = ")"
               /\ AMEX_InParentheses(Slice(rows[r].amount, 2, Len(rows[r].amount) - 1))

\* the numbers n for which "dst (n)" is free in the folder
FreeNumbers(dst) == {n \in 1..(Cardinality(folder) + 1) : Numbered(dst, n) \notin folder}

\* the first free name among dst, "dst (1)", "dst (2)", ...
FirstFree(dst) ==
    IF dst \notin folder THEN dst ELSE Numbered(dst, SetMin(FreeNumbers(dst)))

\* a step of safe_rename
C28_Step ==
    (parser \in Rename_Scripts \cup {"safe_rename"} /\ pc \in {"call", "search"}) =>
        /\ (pc = "call" /\ args.src = args.dst) => (folder' = folder /\ pc' = "returned")
        /\ args.DRY_RUN => folder' = folder
        /\ folder' # folder =>
              /\ pc = "search"
              /\ Rename_src \in folder
              /\ FirstFree(Rename_dst) \notin folder
              /\ folder' = (folder \ {Rename_src}) \cup {FirstFree(Rename_dst)}
              /\ Cardinality(folder') = Cardinality(folder)
        /\ (pc = "search" /\ pc' # "search" /\ pc' # "raised FileNotFoundError"
               /\ ~args.DRY_RUN) =>
              folder' = (folder \ {Rename_src}) \cup {FirstFree(Rename_dst)}

\* the search has tried fewer names than the folder holds plus one, and the number of
\* entries is the one before the run
C28_Bounded ==
    (parser \in Rename_Scripts \cup {"safe_rename"}) =>
        /\ pc = "search" => i <= Cardinality(folder) + 1
        /\ Cardinality(folder) = Cardinality(args.folder)

\* C28: safe_rename never overwrites or removes a file.  The name it renames to is the
\* first free one among dst, "dst (1)", "dst (2)", ... and was no entry of the folder
\* when it was chosen; the search for it ends; the folder holds as many entries after
\* the call as before; and with DRY_RUN set, or src equal to dst, the folder is left as
\* it was.
C28_NeverOverwrites ==
    /\ [][C28_Step]_vars
    /\ []C28_Bounded
    /\ (pc = "search") ~> (pc # "search")

\* a call that found dst and "dst (1)" taken and renamed src to "dst (2)"
C28_Witness ==
    /\ parser = "safe_rename"
    /\ pc = "returned"
    /\ ~args.DRY_RUN
    /\ i = 3
    /\ args.dst \in folder
    /\ Numbered(args.dst, 1) \in folder
    /\ Numbered(args.dst, 2) \in folder \ args.folder
    /\ args.src \in args.folder \ folder

C30_OrderOfEntriesIrrelevant ==
    (/\ parser = "ConvertFileNames"
     /\ earlier # <<>>
     /\ pc = "done") =>
        (earlier[1].run = "replay" => folder = earlier[1].folder)
====
